---- MODULE Spec2Model ----
(***************************************************************************)
(* Hunter_v7: the session store (hunter_core.SessionManager), the          *)
(* orchestrator workflow (main_orchestrator.HunterOrchestrator) with its   *)
(* SIGINT handler, and the parts of the scraping engine the workflow       *)
(* drives (scraper_engine.ScrapingEngine).                                 *)
(*                                                                         *)
(* Four specifications share the variables:                                *)
(*   Spec          one process: run_main_workflow from start to exit,      *)
(*                 with SIGINT at any point;                               *)
(*   SpecResume    the same, and further processes that reload the         *)
(*                 session file the one before left;                       *)
(*   SpecExpansion recursive_follower_expansion as a unit, called with a   *)
(*                 list of accepted profiles (in Spec the phase is only    *)
(*                 ever entered with an empty list, because                *)
(*                 create_hvt_profile raises before a profile is kept);    *)
(*   SpecStore     SessionManager as an object: its methods called in any  *)
(*                 order.                                                  *)
(***************************************************************************)
EXTENDS Integers, Sequences, FiniteSets, TLC

VARIABLES
    pc,            \* control point of the orchestrator
    run,           \* which process this is (1 = first start, 2 = resumed)
    user_filters,  \* HunterOrchestrator.user_filters (max_depth, max_profiles)
    session_data,  \* SessionManager.session_data
    disk,          \* the session state file
    stats,         \* HunterOrchestrator.stats
    should_stop,   \* HunterOrchestrator.should_stop
    driver,        \* ScrapingEngine.driver
    frame,         \* locals of find_initial_hvts / recursive_follower_expansion
    username,      \* argument of the current process_single_profile call
    profile_data,  \* what get_profile_data returned for it
    exit_kind,     \* how run_main_workflow is being left
    hist           \* history of the run (read by the properties only)

vars == <<pc, run, user_filters, session_data, disk, stats, should_stop, driver,
          frame, username, profile_data, exit_kind, hist>>

-----------------------------------------------------------------------------
(* Bounds of the model                                                     *)

MaxSeeds == 2
MaxFollowers == 2
MaxBudget == 2
MaxDepthBound == 1
MaxRuns == 2
MaxQueue == 1
MaxStoreOps == 5
SeedBudget == 1

Usernames == {"u1", "u2", "u3"}

Range(s) == {s[i] : i \in 1..Len(s)}

Min(a, b) == IF a <= b THEN a ELSE b

\* Lists of distinct usernames of length lo..hi.
DistinctLists(S, lo, hi) ==
    UNION {{l \in [1..n -> S] : \A i, j \in 1..n : i # j => l[i] # l[j]} :
           n \in lo..Min(hi, Cardinality(S))}

-----------------------------------------------------------------------------
(* UserProfile and create_hvt_profile                                      *)

\* The fields of the dataclass; none has a default, so __init__ requires all.
UserProfileFields ==
    {"username", "follower_count", "following_count", "post_count", "bio",
     "profile_url", "has_active_story", "location", "is_verified", "is_private",
     "profile_pic_url", "last_post_date", "engagement_rate", "estimated_gender",
     "bio_language", "account_age_estimate", "reason_for_selection",
     "source_hvt", "discovery_timestamp"}

\* The keyword arguments create_hvt_profile passes to UserProfile(...).
CreateHvtKeywords ==
    {"username", "follower_count", "following_count", "post_count", "bio",
     "profile_url", "has_active_story", "location", "is_verified", "is_private",
     "profile_pic_url", "engagement_rate", "estimated_gender", "bio_language",
     "reason_for_selection", "source_hvt", "discovery_timestamp"}

\* UserProfile(**kw) raises TypeError when a required field is not passed.
UserProfileInitRaises(kw) == UserProfileFields \ kw # {}

\* The accepted profile, by the fields the crawl reads.
UserProfile(u, reason, source) ==
    [username |-> u, reason_for_selection |-> reason, source_hvt |-> source]

HvtUsernames(hvts) == {hvts[i].username : i \in 1..Len(hvts)}

-----------------------------------------------------------------------------
(* SessionManager                                                          *)

NoFile == [kind |-> "none"]
CorruptFile == [kind |-> "corrupt"]
JsonFile(d) == [kind |-> "json", data |-> d]

\* The state load_session returns when there is no usable file.
NewSession(now) ==
    [seen_profiles |-> {}, discovered_hvts |-> <<>>, current_depth |-> 0,
     processing_queue |-> <<>>, session_start |-> now,
     total_profiles_scanned |-> 0, errors_encountered |-> 0]

\* list(a_set): every element once, in an order the caller cannot choose.
SetToLists(S) == DistinctLists(S, Cardinality(S), Cardinality(S))

\* load_session: json.load, then the seen list becomes a set again; a missing
\* or unreadable file gives a new session.
load_session_wrong_key(file, now) ==
    IF file.kind = "json"
    THEN [file.data EXCEPT !.seen_profiles = {}]
    ELSE NewSession(now)

load_session(file, now) ==
    IF file.kind = "json"
    THEN [file.data EXCEPT !.seen_profiles = Range(@)]
    ELSE NewSession(now)

\* What save_session hands to json.dump: a copy with the seen set as a list.
SessionCopies(sd) ==
    {[sd EXCEPT !.seen_profiles = l] : l \in SetToLists(sd.seen_profiles)}

\* The file after a save_session that wrote it.
SavedFiles(sd) == {JsonFile(c) : c \in SessionCopies(sd)}

\* The file after save_session: written, or (open or json.dump raised, the
\* exception is logged) left as it was or left truncated.
save_session(sd, file) == SavedFiles(sd) \cup {file, CorruptFile}

SessionAfterSaveEmptied(sd) == [sd EXCEPT !.seen_profiles = {}]

\* self.session_data once save_session has returned: the list replaces the
\* set under 'seen_profiles' in session_copy only, a separate (shallow) dict.
SessionAfterSave(sd) == sd

add_seen_profile_dropped(sd, u) == sd

add_seen_profile(sd, u) == [sd EXCEPT !.seen_profiles = @ \cup {u}]

is_profile_seen_never(sd, u) == FALSE

is_profile_seen(sd, u) == u \in sd.seen_profiles

add_hvt(sd, hvt) == [sd EXCEPT !.discovered_hvts = Append(@, hvt)]

increment_scanned(sd) == [sd EXCEPT !.total_profiles_scanned = @ + 1]

increment_errors(sd) == [sd EXCEPT !.errors_encountered = @ + 1]

-----------------------------------------------------------------------------
(* History kept for the properties                                         *)

\* The examined usernames a session file holds.
PersistedSeen(file) ==
    IF file.kind = "json" THEN Range(file.data.seen_profiles) ELSE {}

Hist0(sd, file) ==
    [fetch_count |-> [u \in Usernames |-> 0],  \* get_profile_data calls this run
     prior_seen |-> PersistedSeen(file),       \* examined set found on disk
     skipped |-> {},                           \* usernames skipped as seen
     save_invoked |-> FALSE,                   \* save_session called this run
     cleanup_invoked |-> FALSE,                \* cleanup_driver called this run
     last_saved |-> sd,                        \* session_data at the last call
     op_aborted |-> FALSE,                     \* a page operation was cut short
     follower_fetches |-> 0,                   \* get_followers calls this run
     total_at_entry |-> 0,                     \* counter when expansion began
     store_op |-> "new",                       \* last SessionManager call
     store_arg |-> "",                         \* username it was given
     pre_save |-> sd,                          \* session_data at the last save
     login_failed |-> FALSE,                   \* login_to_instagram gave False
     completed |-> {},                         \* usernames examined to the end
     errors_before_fetch |-> 0,                \* error counter at the last fetch
     page_loads |-> 0,                         \* driver.get calls of that fetch
     extracted |-> {},                         \* usernames whose page was read
     tag_failures |-> 0,                       \* hashtags whose scrape raised
     export_arg |-> <<>>,                      \* list given to export_results
     csv_rows |-> <<>>,                        \* records written by writerow
     csv_file |-> "None",                      \* what export_results returned
     ops |-> 0]

Frame0 ==
    [seed_usernames |-> <<>>, seed_i |-> 1, initial_hvts |-> <<>>,
     all_hvts |-> <<>>, processing_queue |-> <<>>, next_level_queue |-> <<>>,
     depth |-> 1, src_i |-> 1, source_hvt |-> "", followers |-> <<>>,
     fol_i |-> 1, phase |-> "seed", hashtags |-> 0, tag_i |-> 1,
     seed_profiles |-> {}]

Stats0 ==
    [total_profiles_scanned |-> 0, valid_profiles_processed |-> 0,
     hvts_found |-> 0, errors_encountered |-> 0, current_depth |-> 0]

-----------------------------------------------------------------------------
(* SpecStore: SessionManager's methods, called in any order                *)

StoreInit ==
    /\ pc = "store"
    /\ run = 1
    /\ user_filters = [max_depth |-> 0, max_profiles |-> 0]
    /\ disk = NoFile
    /\ session_data = load_session(NoFile, 1)
    /\ stats = Stats0
    /\ should_stop = FALSE
    /\ driver = "none"
    /\ frame = Frame0
    /\ username = ""
    /\ profile_data = "none"
    /\ exit_kind = "none"
    /\ hist = Hist0(load_session(NoFile, 1), NoFile)

StoreFrame ==
    UNCHANGED <<pc, run, user_filters, stats, should_stop, driver, frame,
                username, profile_data, exit_kind>>

StoreStep(op, arg) ==
    /\ hist.ops < MaxStoreOps
    /\ hist' = [hist EXCEPT !.store_op = op, !.store_arg = arg, !.ops = @ + 1]

StoreAddSeen ==
    \E u \in Usernames :
        /\ session_data' = add_seen_profile(session_data, u)
        /\ StoreStep("add_seen_profile", u)
        /\ UNCHANGED disk
        /\ StoreFrame

StoreAddHvt ==
    \E u \in Usernames :
        /\ session_data' = add_hvt(session_data, UserProfile(u, "All criteria met", "initial_seed"))
        /\ StoreStep("add_hvt", u)
        /\ UNCHANGED disk
        /\ StoreFrame

StoreIncrementScanned ==
    /\ session_data' = increment_scanned(session_data)
    /\ StoreStep("increment_scanned", "")
    /\ UNCHANGED disk
    /\ StoreFrame

StoreIncrementErrors ==
    /\ session_data' = increment_errors(session_data)
    /\ StoreStep("increment_errors", "")
    /\ UNCHANGED disk
    /\ StoreFrame

StoreSave ==
    /\ hist.ops < MaxStoreOps
    /\ disk' \in save_session(session_data, disk)
    /\ hist' = [hist EXCEPT
                   !.store_op = IF disk' \in SavedFiles(session_data)
                                THEN "save_ok" ELSE "save_failed",
                   !.store_arg = "", !.ops = @ + 1,
                   !.pre_save = session_data]
    /\ session_data' = SessionAfterSave(session_data)
    /\ StoreFrame

\* A new SessionManager on the same file: __init__ calls load_session.
StoreLoad ==
    /\ hist.ops < MaxStoreOps
    /\ session_data' = load_session(disk, run + 1)
    /\ hist' = [hist EXCEPT
                   !.store_op = IF hist.store_op = "save_ok"
                                THEN "save_load" ELSE "load",
                   !.store_arg = "", !.ops = @ + 1]
    /\ UNCHANGED disk
    /\ StoreFrame

StoreNext ==
    \/ StoreAddSeen
    \/ StoreAddHvt
    \/ StoreIncrementScanned
    \/ StoreIncrementErrors
    \/ StoreSave
    \/ StoreLoad

SpecStore == StoreInit /\ [][StoreNext]_vars

-----------------------------------------------------------------------------
(* ScrapingEngine: the driver                                              *)

\* cleanup_driver: nothing without a driver; else quit() and drop the
\* reference, or quit() raises (logged) and the dead reference is kept.
cleanup_driver(d) == IF d = "none" THEN {"none"} ELSE {"none", "stale"}

\* login_to_instagram: True with the driver in use, or False after its
\* attempts, the driver kept or lost in a failed proxy rotation.
LoginOutcomes ==
    {[ok |-> TRUE, driver |-> "live"], [ok |-> FALSE, driver |-> "live"],
     [ok |-> FALSE, driver |-> "none"], [ok |-> FALSE, driver |-> "stale"]}

-----------------------------------------------------------------------------
(* HunterOrchestrator.run_main_workflow                                    *)

\* Leaving the try block, by return or by an exception: the locals of the
\* methods left are gone.
\* Logger.error(self, message) takes no other argument.
LoggerErrorKeywords == {"message"}

\* except Exception as e: self.logger.error(..., exc_info=True); return False.
\* The call passes a keyword Logger.error does not take, so the handler raises
\* TypeError itself and the workflow is left by that exception.
CriticalErrorExit ==
    IF "exc_info" \in LoggerErrorKeywords THEN "return_false" ELSE "raised"

\* The methods export_results calls on a UserProfile that the class defines.
UserProfileMethods == {}

GoFinally(kind) ==
    /\ pc' = "finally_cleanup"
    /\ exit_kind' = kind
    /\ frame' = Frame0
    /\ username' = ""
    /\ profile_data' = "none"

\* Where `continue` and the end of a loop body go.
LoopHead == IF frame.phase = "seed" THEN "seed_loop" ELSE "exp_follower"

\* Control points inside one page operation of the scraping engine.
InFlightPcs == {"gpd_navigate", "gpd_extract", "get_followers", "gf_close"}

\* Control points inside a bare `except:` (simulate_human_behavior's pointer
\* move, BioAnalyzer.detect_language / analyze_sentiment, the closing of the
\* follower dialog): SystemExit raised there is swallowed.
SwallowPcs == {"gpd_extract", "filter", "create", "gf_close"}

\* The configuration of the whole-program runs (the seed phase reads neither
\* value).
Init ==
    /\ pc = "init_driver"
    /\ run = 1
    /\ user_filters = [max_depth |-> MaxDepthBound, max_profiles |-> SeedBudget]
    /\ disk = NoFile
    /\ session_data = load_session(NoFile, 1)
    /\ stats = Stats0
    /\ should_stop = FALSE
    /\ driver = "none"
    /\ frame = Frame0
    /\ username = ""
    /\ profile_data = "none"
    /\ exit_kind = "none"
    /\ hist = Hist0(load_session(NoFile, 1), NoFile)

\* scraper.initialize_driver()
InitializeDriver ==
    /\ pc = "init_driver"
    /\ \E ok \in BOOLEAN :
        IF ok
        THEN /\ driver' = "live"
             /\ pc' = "check_login"
             /\ UNCHANGED <<exit_kind, frame, username, profile_data>>
        ELSE UNCHANGED driver /\ GoFinally("return_false")
    /\ UNCHANGED <<run, user_filters, session_data, disk, stats, should_stop,
                   hist>>

\* scraper.check_login_status()
CheckLoginStatus ==
    /\ pc = "check_login"
    /\ \E logged_in \in BOOLEAN :
        pc' = IF logged_in THEN "discover" ELSE "login"
    /\ UNCHANGED <<run, user_filters, session_data, disk, stats, should_stop,
                   driver, frame, username, profile_data, exit_kind, hist>>

\* if not self.scraper.login_to_instagram(username, password): return False
AfterLoginUnchecked(ok) == "discover"

AfterLogin(ok) == IF ok THEN "discover" ELSE "return_false"

\* scraper.login_to_instagram(); pre_run_account_check() always passes.
Login ==
    /\ pc = "login"
    /\ \E o \in LoginOutcomes :
        /\ driver' = o.driver
        /\ hist' = [hist EXCEPT !.login_failed = ~o.ok]
        /\ IF AfterLogin(o.ok) = "discover"
           THEN /\ pc' = "discover"
                /\ UNCHANGED <<exit_kind, frame, username, profile_data>>
           ELSE GoFinally(AfterLogin(o.ok))
    /\ UNCHANGED <<run, user_filters, session_data, disk, stats, should_stop>>

\* find_initial_hvts up to its loop: get_profiles_from_hashtags returns the
\* distinct usernames found (list(set)); none found returns [].
DiscoverSeeds ==
    /\ pc = "discover"
    /\ \E l \in DistinctLists(Usernames, 0, MaxSeeds) :
        /\ frame' = [frame EXCEPT !.seed_usernames = l, !.seed_i = 1,
                                  !.initial_hvts = <<>>, !.phase = "seed"]
        /\ pc' = IF l = <<>> THEN "seed_done" ELSE "seed_loop"
    /\ UNCHANGED <<run, user_filters, session_data, disk, stats, should_stop,
                   driver, username, profile_data, exit_kind, hist>>

\* The break test of `for username in seed_usernames`.
SeedLoopBreakNever(stop) == FALSE

SeedLoopBreak(stop) == stop

\* for username in seed_usernames: if self.should_stop: break
SeedLoop ==
    /\ pc = "seed_loop"
    /\ IF frame.seed_i > Len(frame.seed_usernames) \/ SeedLoopBreak(should_stop)
       THEN pc' = "seed_done" /\ UNCHANGED <<frame, username>>
       ELSE /\ username' = frame.seed_usernames[frame.seed_i]
            /\ frame' = [frame EXCEPT !.seed_i = @ + 1]
            /\ pc' = "psp_seen"
    /\ UNCHANGED <<run, user_filters, session_data, disk, stats, should_stop,
                   driver, profile_data, exit_kind, hist>>

\* process_single_profile: if is_profile_seen(username): return None
PspSeen ==
    /\ pc = "psp_seen"
    /\ IF is_profile_seen(session_data, username)
       THEN /\ pc' = LoopHead
            /\ hist' = [hist EXCEPT !.skipped = @ \cup {username}]
       ELSE pc' = "gpd_navigate" /\ UNCHANGED hist
    /\ UNCHANGED <<run, user_filters, session_data, disk, stats, should_stop,
                   driver, frame, username, profile_data, exit_kind>>

\* get_profile_data: driver.get(profile_url) and the not-found check.  A
\* driver that is gone raises, which the method reports as None after
\* increment_errors.
NavigateOutcomes(d) ==
    IF d = "live" THEN {"not_found", "error", "page"} ELSE {"error"}

\* What get_profile_data counts with increment_errors: the exceptions its
\* `except Exception` catches.
CountsAsErrorOrNotFound(o) == o \in {"error", "not_found"}

CountsAsError(o) == o = "error"

\* SCRAPING max_retries of the default configuration.
max_retries == 3

GpdNavigate ==
    /\ pc = "gpd_navigate"
    /\ hist' = [hist EXCEPT !.fetch_count[username] = @ + 1,
                            !.errors_before_fetch = session_data.errors_encountered,
                            !.page_loads = 1]
    /\ \E o \in NavigateOutcomes(driver) :
        /\ session_data' = IF CountsAsError(o) THEN increment_errors(session_data)
                           ELSE session_data
        /\ IF o = "page"
           THEN pc' = "gpd_extract" /\ UNCHANGED profile_data
           ELSE pc' = "psp_count" /\ profile_data' = o
    /\ UNCHANGED <<run, user_filters, disk, stats, should_stop, driver, frame,
                   username, exit_kind>>

\* get_profile_data: simulate_human_behavior and the extraction.  The record
\* is classed by what the caller will find: it fails validation, the filters
\* reject it, or the filters accept it.
ExtractOutcomes(d) ==
    IF d = "live" THEN {"error", "invalid", "rejected", "target"} ELSE {"error"}

GpdExtract ==
    /\ pc = "gpd_extract"
    /\ \E o \in ExtractOutcomes(driver) :
        /\ profile_data' = o
        /\ session_data' = IF o = "error" THEN increment_errors(session_data)
                           ELSE increment_scanned(session_data)
    /\ hist' = [hist EXCEPT !.extracted = @ \cup {username}]
    /\ pc' = "psp_count"
    /\ UNCHANGED <<run, user_filters, disk, stats, should_stop, driver, frame,
                   username, exit_kind>>

PspCountSkipped ==
    /\ pc = "psp_count"
    /\ pc' = "psp_mark"
    /\ UNCHANGED <<run, user_filters, session_data, disk, stats, should_stop,
                   driver, frame, username, profile_data, exit_kind, hist>>

\* self.stats['total_profiles_scanned'] += 1
PspCount ==
    /\ pc = "psp_count"
    /\ stats' = [stats EXCEPT !.total_profiles_scanned = @ + 1]
    /\ pc' = "psp_mark"
    /\ UNCHANGED <<run, user_filters, session_data, disk, should_stop, driver,
                   frame, username, profile_data, exit_kind, hist>>

\* self.session_manager.add_seen_profile(username)
PspMark ==
    /\ pc = "psp_mark"
    /\ session_data' = add_seen_profile(session_data, username)
    /\ hist' = IF profile_data \in {"not_found", "error"}
               THEN [hist EXCEPT !.completed = @ \cup {username}]
               ELSE hist
    /\ pc' = "psp_validate"
    /\ UNCHANGED <<run, user_filters, disk, stats, should_stop, driver, frame,
                   username, profile_data, exit_kind>>

\* get_profile_data returned None.
IsNoneUnfetchedOnly(pd) == pd = "none"

IsNone(pd) == pd \in {"none", "not_found", "error"}

\* validate_and_score_profile: is_valid is False when a required field is
\* missing; a low quality score alone still passes.
IsValid(pd) == pd # "invalid"

\* The rest of process_single_profile.
PspValidate ==
    /\ pc = "psp_validate"
    /\ IF IsNone(profile_data) \/ ~IsValid(profile_data)
       THEN /\ pc' = LoopHead
            /\ hist' = [hist EXCEPT !.completed = @ \cup {username}]
            /\ UNCHANGED stats
       ELSE /\ stats' = [stats EXCEPT !.valid_profiles_processed = @ + 1]
            /\ pc' = "filter"
            /\ UNCHANGED hist
    /\ UNCHANGED <<run, user_filters, session_data, disk, should_stop, driver,
                   frame, username, profile_data, exit_kind>>

\* should_target, reason = self.apply_all_filters(profile_data)
apply_all_filters(pd) == pd = "target"

Filter ==
    /\ pc = "filter"
    /\ pc' = IF apply_all_filters(profile_data) THEN "create" ELSE "delay"
    /\ hist' = IF apply_all_filters(profile_data) THEN hist
               ELSE [hist EXCEPT !.completed = @ \cup {username}]
    /\ UNCHANGED <<run, user_filters, session_data, disk, stats, should_stop,
                   driver, frame, username, profile_data, exit_kind>>

\* create_hvt_profile and what follows it in the loop body.  UserProfile(...)
\* raises TypeError for the two fields not passed; the exception leaves the
\* loop and reaches run_main_workflow's `except Exception`.
Create ==
    /\ pc = "create"
    /\ IF UserProfileInitRaises(CreateHvtKeywords)
       THEN /\ GoFinally(CriticalErrorExit)
            /\ UNCHANGED <<session_data, stats, hist>>
       ELSE /\ LET hvt == UserProfile(username, "All criteria met",
                              IF frame.phase = "seed" THEN "initial_seed"
                              ELSE frame.source_hvt)
               IN /\ frame' = IF frame.phase = "seed"
                              THEN [frame EXCEPT !.initial_hvts = Append(@, hvt)]
                              ELSE [frame EXCEPT !.all_hvts = Append(@, hvt),
                                                 !.next_level_queue = Append(@, hvt)]
                  /\ session_data' = add_hvt(session_data, hvt)
            /\ stats' = [stats EXCEPT !.hvts_found = @ + 1]
            /\ hist' = [hist EXCEPT !.completed = @ \cup {username}]
            /\ pc' = "delay"
            /\ UNCHANGED <<exit_kind, username, profile_data>>
    /\ UNCHANGED <<run, user_filters, disk, should_stop, driver>>

\* if not self.should_stop: self.scraper.human_delay()
Delay ==
    /\ pc = "delay"
    /\ pc' = LoopHead
    /\ UNCHANGED <<run, user_filters, session_data, disk, stats, should_stop,
                   driver, frame, username, profile_data, exit_kind, hist>>

\* The end of find_initial_hvts and the test that follows the call.
SeedDone ==
    /\ pc = "seed_done"
    /\ IF frame.initial_hvts = <<>> /\ ~should_stop
       THEN GoFinally("return_true")
       ELSE /\ pc' = "exp_start"
            /\ UNCHANGED <<exit_kind, frame, username, profile_data>>
    /\ UNCHANGED <<run, user_filters, session_data, disk, stats, should_stop,
                   driver, hist>>

-----------------------------------------------------------------------------
(* HunterOrchestrator.recursive_follower_expansion                         *)

\* range(1, max_depth + 1)
DepthRangeOffByOne(max_depth) == 1..(max_depth + 1)

DepthRange(max_depth) == 1..max_depth

\* The break test of `for source_hvt in processing_queue`.
SourceLoopBreak(stop, st, uf) ==
    stop \/ st.total_profiles_scanned >= uf.max_profiles

\* The break test of `for follower_username in followers`.
FollowerLoopBreakStopOnly(stop, st, uf) == stop

FollowerLoopBreak(stop, st, uf) ==
    stop \/ st.total_profiles_scanned >= uf.max_profiles

\* all_hvts = list(initial_hvts); processing_queue = list(initial_hvts)
ExpStart ==
    /\ pc = "exp_start"
    /\ frame' = [frame EXCEPT !.all_hvts = frame.initial_hvts,
                              !.processing_queue = frame.initial_hvts,
                              !.depth = 1, !.phase = "expansion"]
    /\ hist' = [hist EXCEPT !.total_at_entry = stats.total_profiles_scanned]
    /\ pc' = "exp_depth"
    /\ UNCHANGED <<run, user_filters, session_data, disk, stats, should_stop,
                   driver, username, profile_data, exit_kind>>

\* for depth in range(1, max_depth + 1):
\*     if not processing_queue or self.should_stop: break
ExpDepth ==
    /\ pc = "exp_depth"
    /\ IF \/ frame.depth \notin DepthRange(user_filters.max_depth)
          \/ frame.processing_queue = <<>>
          \/ should_stop
       THEN pc' = "export" /\ UNCHANGED <<frame, stats>>
       ELSE /\ stats' = [stats EXCEPT !.current_depth = frame.depth]
            /\ frame' = [frame EXCEPT !.next_level_queue = <<>>, !.src_i = 1]
            /\ pc' = "exp_source"
    /\ UNCHANGED <<run, user_filters, session_data, disk, should_stop, driver,
                   username, profile_data, exit_kind, hist>>

\* for source_hvt in processing_queue: the break test, or the next source.
ExpSource ==
    /\ pc = "exp_source"
    /\ IF \/ frame.src_i > Len(frame.processing_queue)
          \/ SourceLoopBreak(should_stop, stats, user_filters)
       THEN pc' = "exp_level_end" /\ UNCHANGED frame
       ELSE /\ frame' = [frame EXCEPT
                           !.source_hvt = frame.processing_queue[frame.src_i].username,
                           !.src_i = @ + 1]
            /\ pc' = "get_followers"
    /\ UNCHANGED <<run, user_filters, session_data, disk, stats, should_stop,
                   driver, username, profile_data, exit_kind, hist>>

\* get_followers up to the end of its scroll loop: the usernames collected
\* (list(set)[:limit]); an exception anywhere returns [].
FollowerLists(d) ==
    IF d = "live" THEN DistinctLists(Usernames, 0, MaxFollowers) ELSE {<<>>}

GetFollowers ==
    /\ pc = "get_followers"
    /\ hist' = [hist EXCEPT !.follower_fetches = @ + 1]
    /\ \E l \in FollowerLists(driver) :
        /\ frame' = [frame EXCEPT !.followers = l, !.fol_i = 1]
        /\ pc' = IF l = <<>> THEN "exp_source" ELSE "gf_close"
    /\ UNCHANGED <<run, user_filters, session_data, disk, stats, should_stop,
                   driver, username, profile_data, exit_kind>>

\* get_followers: the dialog is closed inside `try: ... except: pass`, and
\* the list is returned.
GfClose ==
    /\ pc = "gf_close"
    /\ pc' = "exp_follower"
    /\ UNCHANGED <<run, user_filters, session_data, disk, stats, should_stop,
                   driver, frame, username, profile_data, exit_kind, hist>>

\* for follower_username in followers: the break test, or the next follower.
ExpFollower ==
    /\ pc = "exp_follower"
    /\ IF \/ frame.fol_i > Len(frame.followers)
          \/ FollowerLoopBreak(should_stop, stats, user_filters)
       THEN pc' = "exp_source" /\ UNCHANGED <<frame, username>>
       ELSE /\ username' = frame.followers[frame.fol_i]
            /\ frame' = [frame EXCEPT !.fol_i = @ + 1]
            /\ pc' = "psp_seen"
    /\ UNCHANGED <<run, user_filters, session_data, disk, stats, should_stop,
                   driver, profile_data, exit_kind, hist>>

\* processing_queue = next_level_queue
ExpLevelEnd ==
    /\ pc = "exp_level_end"
    /\ frame' = [frame EXCEPT !.processing_queue = frame.next_level_queue,
                              !.depth = @ + 1]
    /\ pc' = "exp_depth"
    /\ UNCHANGED <<run, user_filters, session_data, disk, stats, should_stop,
                   driver, username, profile_data, exit_kind, hist>>

-----------------------------------------------------------------------------
(* The end of run_main_workflow, the interrupt handler, a new process      *)

\* export_results, the summary e-mail and display_session_summary change
\* nothing the crawl reads; return True.  With a non-empty list export_results
\* calls hvt.to_dict(), which UserProfile lacks; its own handler then calls
\* logger.error(..., exc_info=True), whose TypeError reaches the workflow's
\* `except Exception`.
\* The rows export_results has written when it is left: the header, then
\* writer.writerow(hvt.to_dict()) for each profile in the order of the list.
ExportedRows(hvts) == IF "to_dict" \in UserProfileMethods THEN hvts ELSE <<>>

\* csv_filename when the loop over the profiles completed.
ExportedFile(hvts) ==
    IF hvts # <<>> /\ "to_dict" \in UserProfileMethods THEN "csv_filename"
    ELSE "None"

Export ==
    /\ pc = "export"
    /\ hist' = [hist EXCEPT !.export_arg = frame.all_hvts,
                            !.csv_rows = ExportedRows(frame.all_hvts),
                            !.csv_file = ExportedFile(frame.all_hvts)]
    /\ IF frame.all_hvts = <<>> \/ "to_dict" \in UserProfileMethods
          \/ "exc_info" \in LoggerErrorKeywords
       THEN GoFinally("return_true")
       ELSE GoFinally(CriticalErrorExit)
    /\ UNCHANGED <<run, user_filters, session_data, disk, stats, should_stop,
                   driver>>

\* finally: if self.scraper: self.scraper.cleanup_driver()
FinallyCleanupAfterSuccessOnly ==
    /\ pc = "finally_cleanup"
    /\ driver' \in IF exit_kind = "return_true" THEN cleanup_driver(driver)
                   ELSE {driver}
    /\ hist' = [hist EXCEPT !.cleanup_invoked = @ \/ exit_kind = "return_true"]
    /\ pc' = "finally_save"
    /\ UNCHANGED <<run, user_filters, session_data, disk, stats, should_stop,
                   frame, username, profile_data, exit_kind>>

FinallyCleanup ==
    /\ pc = "finally_cleanup"
    /\ driver' \in cleanup_driver(driver)
    /\ hist' = [hist EXCEPT !.cleanup_invoked = TRUE]
    /\ pc' = "finally_save"
    /\ UNCHANGED <<run, user_filters, session_data, disk, stats, should_stop,
                   frame, username, profile_data, exit_kind>>

\* finally: if self.session_manager: self.session_manager.save_session()
FinallySaveAfterSuccessOnly ==
    /\ pc = "finally_save"
    /\ disk' \in IF exit_kind = "return_true" THEN save_session(session_data, disk)
                 ELSE {disk}
    /\ hist' = IF exit_kind = "return_true"
               THEN [hist EXCEPT !.save_invoked = TRUE, !.last_saved = session_data]
               ELSE hist
    /\ pc' = "exited"
    /\ UNCHANGED <<run, user_filters, session_data, stats, should_stop, driver,
                   frame, username, profile_data, exit_kind>>

FinallySave ==
    /\ pc = "finally_save"
    /\ disk' \in save_session(session_data, disk)
    /\ hist' = [hist EXCEPT !.save_invoked = TRUE, !.last_saved = session_data]
    /\ pc' = "exited"
    /\ UNCHANGED <<run, user_filters, session_data, stats, should_stop, driver,
                   frame, username, profile_data, exit_kind>>

\* Where sys.exit(0) in the handler takes control: SystemExit is not an
\* Exception, so only `finally` runs; raised inside the finally block it
\* leaves the workflow at once.
AfterSystemExit(at) ==
    IF at \in {"finally_cleanup", "finally_save"} THEN "exited"
    ELSE "finally_cleanup"

\* handle_interrupt, run on SIGINT at any point of the workflow:
\* should_stop = True, save_session(), cleanup_driver(), sys.exit(0).
\* Inside a bare `except:` the SystemExit is swallowed and the code goes on.
HandleInterrupt ==
    /\ pc \notin {"exited", "store"}
    /\ should_stop' = TRUE
    /\ disk' \in save_session(session_data, disk)
    /\ driver' \in cleanup_driver(driver)
    /\ \E swallowed \in {s \in BOOLEAN : s => pc \in SwallowPcs} :
        IF swallowed
        THEN /\ UNCHANGED <<pc, exit_kind, frame, username, profile_data>>
             /\ hist' = [hist EXCEPT !.save_invoked = TRUE,
                                     !.cleanup_invoked = TRUE,
                                     !.last_saved = session_data]
        ELSE /\ pc' = AfterSystemExit(pc)
             /\ exit_kind' = "SystemExit"
             /\ frame' = Frame0
             /\ username' = ""
             /\ profile_data' = "none"
             /\ hist' = [hist EXCEPT !.save_invoked = TRUE,
                                     !.cleanup_invoked = TRUE,
                                     !.last_saved = session_data,
                                     !.op_aborted = @ \/ pc \in InFlightPcs]
    /\ UNCHANGED <<run, user_filters, session_data, stats>>

\* main: 0 when run_main_workflow returned True, 1 when it returned False or
\* raised an Exception; the handler's sys.exit(0) ends the process with 0.
MainExitCode(kind) == IF kind \in {"return_true", "SystemExit"} THEN 0 ELSE 1

\* The program is started again: a new orchestrator, a new SessionManager
\* that loads the session file.
Restart ==
    /\ pc = "exited"
    /\ run < MaxRuns
    /\ run' = run + 1
    /\ session_data' = load_session(disk, run + 1)
    /\ hist' = Hist0(load_session(disk, run + 1), disk)
    /\ stats' = Stats0
    /\ should_stop' = FALSE
    /\ driver' = "none"
    /\ frame' = Frame0
    /\ username' = ""
    /\ profile_data' = "none"
    /\ exit_kind' = "none"
    /\ pc' = "init_driver"
    /\ UNCHANGED <<user_filters, disk>>

Next ==
    \/ InitializeDriver
    \/ CheckLoginStatus
    \/ Login
    \/ DiscoverSeeds
    \/ SeedLoop
    \/ PspSeen
    \/ GpdNavigate
    \/ GpdExtract
    \/ PspCount
    \/ PspMark
    \/ PspValidate
    \/ Filter
    \/ Create
    \/ Delay
    \/ SeedDone
    \/ ExpStart
    \/ ExpDepth
    \/ Export
    \/ FinallyCleanup
    \/ FinallySave
    \/ HandleInterrupt

\* One process, from start to exit.
Spec == Init /\ [][Next]_vars

\* The same, and the program started again on the session file it left.
ResumeNext == Next \/ Restart

SpecResume == Init /\ [][ResumeNext]_vars

-----------------------------------------------------------------------------
(* SpecExpansion: recursive_follower_expansion(initial_hvts) as a unit     *)

\* The profiles the seed phase hands over: accepted from the seed list, each
\* examined once and recorded in the session.
SeedHvts(l) == [i \in 1..Len(l) |-> UserProfile(l[i], "All criteria met", "initial_seed")]

SessionAfterSeeds(l) ==
    [NewSession(1) EXCEPT !.seen_profiles = Range(l),
                          !.discovered_hvts = SeedHvts(l),
                          !.total_profiles_scanned = Len(l)]

ExpInit ==
    /\ pc = "exp_start"
    /\ run = 1
    /\ user_filters \in [max_depth : 0..MaxDepthBound, max_profiles : 0..MaxBudget]
    /\ disk = NoFile
    /\ \E l \in DistinctLists(Usernames, 1, MaxQueue) :
        /\ session_data = SessionAfterSeeds(l)
        /\ stats = [Stats0 EXCEPT !.total_profiles_scanned = Len(l),
                                  !.valid_profiles_processed = Len(l),
                                  !.hvts_found = Len(l)]
        /\ frame = [Frame0 EXCEPT !.seed_usernames = l, !.seed_i = Len(l) + 1,
                                  !.initial_hvts = SeedHvts(l)]
        /\ hist = [Hist0(SessionAfterSeeds(l), NoFile) EXCEPT !.total_at_entry = Len(l)]
    /\ should_stop = FALSE
    /\ driver = "live"
    /\ username = ""
    /\ profile_data = "none"
    /\ exit_kind = "none"

ExpNext ==
    \/ ExpStart
    \/ ExpDepth
    \/ ExpSource
    \/ GetFollowers
    \/ GfClose
    \/ ExpFollower
    \/ ExpLevelEnd
    \/ PspSeen
    \/ GpdNavigate
    \/ GpdExtract
    \/ PspCount
    \/ PspMark
    \/ PspValidate
    \/ Filter
    \/ Create
    \/ Delay
    \/ Export
    \/ FinallyCleanup
    \/ FinallySave
    \/ HandleInterrupt

SpecExpansion == ExpInit /\ [][ExpNext]_vars

-----------------------------------------------------------------------------
(* SpecCrawl: the loops of the crawl, with get_profiles_from_hashtags      *)
(* hashtag by hashtag; the expansion is entered as in SpecExpansion        *)

MaxTags == 2

\* seed_hashtags is not empty; seed_profiles = set(); for tag in hashtags
DiscoverStart ==
    /\ pc = "discover"
    /\ \E n \in 1..MaxTags :
         frame' = [frame EXCEPT !.hashtags = n, !.tag_i = 1, !.seed_profiles = {},
                                !.initial_hvts = <<>>, !.phase = "seed"]
    /\ pc' = "tag_loop"
    /\ UNCHANGED <<run, user_filters, session_data, disk, stats, should_stop,
                   driver, username, profile_data, exit_kind, hist>>

\* The next hashtag, or return list(seed_profiles) to find_initial_hvts,
\* which returns [] when the list is empty.
TagLoop ==
    /\ pc = "tag_loop"
    /\ IF frame.tag_i <= frame.hashtags
       THEN pc' = "tag_scrape" /\ UNCHANGED frame
       ELSE \E l \in SetToLists(frame.seed_profiles) :
              /\ frame' = [frame EXCEPT !.seed_usernames = l, !.seed_i = 1]
              /\ pc' = IF l = <<>> THEN "seed_done" ELSE "seed_loop"
    /\ UNCHANGED <<run, user_filters, session_data, disk, stats, should_stop,
                   driver, username, profile_data, exit_kind, hist>>

\* The try block of one hashtag: the authors found on the posts visited are
\* added; an exception on the way is logged and ends this hashtag only.
TagScrape ==
    /\ pc = "tag_scrape"
    /\ \E found \in SUBSET Usernames, failed \in BOOLEAN :
        /\ driver # "live" => failed /\ found = {}
        /\ Cardinality(frame.seed_profiles \cup found) <= MaxSeeds
        /\ frame' = [frame EXCEPT !.seed_profiles = @ \cup found, !.tag_i = @ + 1]
        /\ hist' = [hist EXCEPT !.tag_failures = IF failed THEN @ + 1 ELSE @]
    /\ pc' = "tag_loop"
    /\ UNCHANGED <<run, user_filters, session_data, disk, stats, should_stop,
                   driver, username, profile_data, exit_kind>>

CrawlInit == Init \/ ExpInit

CrawlNext ==
    \/ InitializeDriver
    \/ CheckLoginStatus
    \/ Login
    \/ DiscoverStart
    \/ TagLoop
    \/ TagScrape
    \/ SeedLoop
    \/ SeedDone
    \/ ExpNext

SpecCrawl == CrawlInit /\ [][CrawlNext]_vars

-----------------------------------------------------------------------------
(* SpecFilter: qualification of one record.  Text is a string; Python's    *)
(* `in`, lower() and replace() are computed character by character.        *)

\* Python `sub in text`.
Contains(sub, text) ==
    \E i \in 1..(Len(text) - Len(sub) + 1) :
        SubSeq(text, i, i + Len(sub) - 1) = sub

UpperCaseLetters == "ABCDEFGHIJKLMNOPQRSTUVWXYZ"
LowerCaseLetters == "abcdefghijklmnopqrstuvwxyz"

LowerChar(c) ==
    IF \E i \in 1..Len(UpperCaseLetters) : SubSeq(UpperCaseLetters, i, i) = c
    THEN LET i == CHOOSE j \in 1..Len(UpperCaseLetters) :
                      SubSeq(UpperCaseLetters, j, j) = c
         IN SubSeq(LowerCaseLetters, i, i)
    ELSE c

\* str.lower()
RECURSIVE Lower(_)
Lower(s) ==
    IF Len(s) = 0 THEN "" ELSE LowerChar(SubSeq(s, 1, 1)) \o Lower(Tail(s))

\* str.replace(old, new) for a one-character old.
RECURSIVE Replace(_, _, _)
Replace(s, old, new) ==
    IF Len(s) = 0 THEN ""
    ELSE (IF SubSeq(s, 1, 1) = old THEN new ELSE SubSeq(s, 1, 1))
         \o Replace(Tail(s), old, new)

\* LocationValidator.usa_keywords
usa_keywords ==
    {"alabama", "al", "alaska", "ak", "arizona", "az", "arkansas", "ar",
     "california", "ca", "colorado", "co", "connecticut", "ct",
     "delaware", "de", "florida", "fl", "georgia", "ga", "hawaii", "hi",
     "idaho", "id", "illinois", "il", "indiana", "in", "iowa", "ia",
     "kansas", "ks", "kentucky", "ky", "louisiana", "la", "maine", "me",
     "maryland", "md", "massachusetts", "ma", "michigan", "mi",
     "minnesota", "mn", "mississippi", "ms", "missouri", "mo", "montana",
     "mt", "nebraska", "ne", "nevada", "nv", "new hampshire", "nh",
     "new jersey", "nj", "new mexico", "nm", "new york", "ny",
     "north carolina", "nc", "north dakota", "nd", "ohio", "oh",
     "oklahoma", "ok", "oregon", "or", "pennsylvania", "pa",
     "rhode island", "ri", "south carolina", "sc", "south dakota", "sd",
     "tennessee", "tn", "texas", "tx", "utah", "ut", "vermont", "vt",
     "virginia", "va", "washington", "wa", "west virginia", "wv",
     "wisconsin", "wi", "wyoming", "wy", "new york city", "nyc",
     "los angeles", "chicago", "houston", "phoenix", "philadelphia",
     "san antonio", "san diego", "dallas", "san jose", "austin",
     "jacksonville", "fort worth", "columbus", "charlotte",
     "san francisco", "indianapolis", "seattle", "denver",
     "washington dc", "boston", "nashville", "miami", "atlanta", "vegas",
     "las vegas", "detroit", "portland", "memphis", "usa",
     "united states", "america", "us", "american", "puerto rico", "pr",
     "guam", "virgin islands", "american samoa"}

\* LocationValidator.non_usa_indicators
non_usa_indicators ==
    {"uk", "london", "england", "britain", "canada", "toronto",
     "vancouver", "australia", "sydney", "melbourne", "germany", "berlin",
     "france", "paris", "italy", "spain", "mexico", "brazil", "india",
     "mumbai", "delhi", "japan", "tokyo", "china", "beijing", "russia",
     "moscow"}

\* is_usa_location: ambiguous_cities
ambiguous_cities ==
    {"springfield", "madison", "franklin", "georgetown", "clinton"}

\* detect_commercial_intent: commercial_keywords
commercial_keywords ==
    {"link in bio", "linktree", "dm for collab", "business inquiries",
     "sponsored", "promo code", "discount", "shop now", "buy now",
     "affiliate", "partnership", "brand ambassador", "influencer",
     "onlyfans", "premium", "exclusive content", "subscribe"}

\* LocationValidator.is_usa_location: (is_usa, reason).  The reason is the
\* message without the matched words.
is_usa_location(bio, location_field) ==
    LET combined_text == Lower(bio \o " " \o location_field)
    IN IF \E indicator \in non_usa_indicators : Contains(indicator, combined_text)
       THEN [is_usa |-> FALSE, reason |-> "Non-USA location detected"]
       ELSE IF \E keyword \in usa_keywords : Contains(keyword, combined_text)
       THEN [is_usa |-> TRUE, reason |-> "USA location confirmed"]
       ELSE IF \E city \in ambiguous_cities : Contains(city, combined_text)
       THEN IF \E state \in usa_keywords : Contains(state, combined_text)
            THEN [is_usa |-> TRUE, reason |-> "Ambiguous city with USA context"]
            ELSE [is_usa |-> FALSE,
                  reason |-> "Ambiguous city without USA context"]
       ELSE [is_usa |-> FALSE,
             reason |-> "No clear USA location indicators found"]

\* BioAnalyzer.detect_commercial_intent
detect_commercial_intent(bio) ==
    \E keyword \in commercial_keywords : Contains(keyword, Lower(bio))

\* BioAnalyzer.analyze_bio: the entry should_target_profile tests.
has_commercial_intent(bio) ==
    IF bio = "" THEN FALSE ELSE detect_commercial_intent(bio)

\* [FILTERING] of the configuration the program writes when none exists.
\* Engagement rates are kept in tenths of a percent (0.5 and 15.0).
min_engagement_rate == 5
max_engagement_rate == 150
require_profile_pic == TRUE
exclude_keywords ==
    {"onlyfans", "escort", "sugar daddy", "cam girl", "premium", "link in bio"}

\* min_followers <= follower_count <= max_followers
FollowerCountInRangeExclusive(pd, uf) ==
    uf.min_followers < pd.follower_count /\ pd.follower_count < uf.max_followers

FollowerCountInRange(pd, uf) ==
    uf.min_followers <= pd.follower_count /\ pd.follower_count <= uf.max_followers

\* post_count < min_posts
PostCountBelowMinimum(pd, uf) == pd.post_count < uf.min_posts

Reject(reason) == [should_target |-> FALSE, reason |-> reason]

\* The chain with the private test moved ahead of the verified test.
should_target_profile_private_first(pd, uf) ==
    IF ~FollowerCountInRange(pd, uf) THEN Reject("Follower count outside range")
    ELSE IF PostCountBelowMinimum(pd, uf) THEN Reject("Post count below minimum")
    ELSE IF pd.is_private THEN Reject("Private profile")
    ELSE IF pd.is_verified
    THEN Reject("Verified account (excluded by preference)")
    ELSE IF ~is_usa_location(pd.bio, pd.location).is_usa
    THEN Reject("Location check failed: "
                \o is_usa_location(pd.bio, pd.location).reason)
    ELSE IF ~pd.has_active_story THEN Reject("No active story found")
    ELSE IF require_profile_pic /\ pd.profile_pic_url = ""
    THEN Reject("No profile picture")
    ELSE IF has_commercial_intent(pd.bio)
    THEN Reject("Commercial intent detected in bio")
    ELSE IF \E keyword \in exclude_keywords : Contains(keyword, Lower(pd.bio))
    THEN Reject("Excluded keyword found")
    ELSE IF /\ pd.engagement_rate > 0
            /\ ~(/\ min_engagement_rate <= pd.engagement_rate
                 /\ pd.engagement_rate <= max_engagement_rate)
    THEN Reject("Engagement rate outside normal range (possible bot)")
    ELSE [should_target |-> TRUE, reason |-> "All criteria met"]

\* str.split(','): the items between the commas, empty ones included.
RECURSIVE SplitComma(_)
SplitComma(text) ==
    IF \E i \in 1..Len(text) : SubSeq(text, i, i) = ","
    THEN LET i == CHOOSE k \in 1..Len(text) :
                      /\ SubSeq(text, k, k) = ","
                      /\ \A m \in 1..(k - 1) : SubSeq(text, m, m) # ","
         IN <<SubSeq(text, 1, i - 1)>>
            \o SplitComma(SubSeq(text, i + 1, Len(text)))
    ELSE <<text>>

\* str.strip() of blanks.
RECURSIVE Strip(_)
Strip(s) ==
    IF Len(s) = 0 THEN s
    ELSE IF SubSeq(s, 1, 1) = " " THEN Strip(Tail(s))
    ELSE IF SubSeq(s, Len(s), Len(s)) = " " THEN Strip(SubSeq(s, 1, Len(s) - 1))
    ELSE s

\* ProfileFilter.__init__: self.exclude_keywords from the configured text.
ParseExcludeKeywords(text) ==
    {Lower(Strip(SplitComma(text)[i])) : i \in 1..Len(SplitComma(text))}

\* should_target_profile of a ProfileFilter whose exclude_keywords are
\* `keywords`.
ShouldTargetProfileWith(keywords, pd, uf) ==
    IF ~FollowerCountInRange(pd, uf) THEN Reject("Follower count outside range")
    ELSE IF PostCountBelowMinimum(pd, uf) THEN Reject("Post count below minimum")
    ELSE IF pd.is_verified
    THEN Reject("Verified account (excluded by preference)")
    ELSE IF pd.is_private THEN Reject("Private profile")
    ELSE IF ~is_usa_location(pd.bio, pd.location).is_usa
    THEN Reject("Location check failed: "
                \o is_usa_location(pd.bio, pd.location).reason)
    ELSE IF ~pd.has_active_story THEN Reject("No active story found")
    ELSE IF require_profile_pic /\ pd.profile_pic_url = ""
    THEN Reject("No profile picture")
    ELSE IF has_commercial_intent(pd.bio)
    THEN Reject("Commercial intent detected in bio")
    ELSE IF \E keyword \in keywords : Contains(keyword, Lower(pd.bio))
    THEN Reject("Excluded keyword found")
    ELSE IF /\ pd.engagement_rate > 0
            /\ ~(/\ min_engagement_rate <= pd.engagement_rate
                 /\ pd.engagement_rate <= max_engagement_rate)
    THEN Reject("Engagement rate outside normal range (possible bot)")
    ELSE [should_target |-> TRUE, reason |-> "All criteria met"]

\* ProfileFilter.should_target_profile: (should_target, reason), under the
\* configuration the program writes when none exists.
should_target_profile(pd, uf) ==
    ShouldTargetProfileWith(exclude_keywords, pd, uf)

\* HunterOrchestrator.apply_all_filters on a scraped record: the session's
\* own include and exclude keywords, then should_target_profile.
ApplyAllFilters(pd, uf) ==
    LET bio_lower == Lower(pd.bio)
    IN IF /\ uf.include_keywords # <<>>
          /\ ~\E i \in 1..Len(uf.include_keywords) :
                 Contains(Lower(uf.include_keywords[i]), bio_lower)
       THEN Reject("Does not contain required keywords.")
       ELSE IF /\ uf.exclude_keywords # <<>>
               /\ \E i \in 1..Len(uf.exclude_keywords) :
                     Contains(Lower(uf.exclude_keywords[i]), bio_lower)
       THEN Reject("Contains excluded keyword")
       ELSE should_target_profile(pd, uf)

\* Defaults of the interactive configuration.
DefaultMinFollowers == 1000
DefaultMaxFollowers == 50000
DefaultMinPosts == 50

\* The session's filters: the default thresholds, with and without keywords.
SessionFilters ==
    [min_followers : {DefaultMinFollowers},
     max_followers : {DefaultMaxFollowers},
     min_posts : {DefaultMinPosts},
     include_keywords : {<<>>, <<"Mom">>},
     exclude_keywords : {<<>>, <<"OnlyFans", "escort", "premium">>}]

\* Biographies a page can show.
Biographies ==
    {"", "Springfield", "Springfield, Illinois", "Texas mom", "London mum",
     "Austin TX. Link in bio", "Boston mom, escort", "xyz"}

\* Records get_profile_data can return, with counts at and around the
\* thresholds.
ScrapedRecords ==
    [follower_count : {DefaultMinFollowers - 1, DefaultMinFollowers,
                       DefaultMaxFollowers, DefaultMaxFollowers + 1},
     post_count : {DefaultMinPosts - 1, DefaultMinPosts},
     is_verified : BOOLEAN,
     is_private : BOOLEAN,
     bio : Biographies,
     location : {""},
     has_active_story : BOOLEAN,
     profile_pic_url : {"", "https://cdn/pic.jpg"},
     engagement_rate : {0, min_engagement_rate - 1, max_engagement_rate}]

\* [FILTERING] exclude_keywords as a configuration file can give it: the
\* text the program writes itself, no keyword at all, a trailing comma.
DefaultExcludeText == "OnlyFans,escort,sugar daddy,cam girl,premium,link in bio"
ExcludeTexts == {DefaultExcludeText, "", "OnlyFans, escort,"}

FilterFrame ==
    [should_target |-> FALSE, reason |-> "", is_usa |-> FALSE,
     exclude_text |-> DefaultExcludeText]

FilterInit ==
    /\ pc = "qualify"
    /\ profile_data \in ScrapedRecords
    /\ user_filters \in SessionFilters
    /\ frame = FilterFrame
    /\ run = 1
    /\ session_data = NewSession(1)
    /\ disk = NoFile
    /\ stats = Stats0
    /\ should_stop = FALSE
    /\ driver = "live"
    /\ username = ""
    /\ exit_kind = "none"
    /\ hist = Hist0(NewSession(1), NoFile)

FilterReturn(at, result) ==
    /\ pc = "qualify"
    /\ pc' = at
    /\ frame' = result
    /\ UNCHANGED <<run, user_filters, session_data, disk, stats, should_stop,
                   driver, username, profile_data, exit_kind, hist>>

\* should_target, reason = self.apply_all_filters(profile_data)
CallApplyAllFilters ==
    FilterReturn("qualified",
                 ApplyAllFilters(profile_data, user_filters) @@ FilterFrame)

\* profile_filter.should_target_profile(profile_data, self.user_filters)
CallShouldTargetProfile ==
    FilterReturn("targeted",
                 should_target_profile(profile_data, user_filters) @@ FilterFrame)

\* self.location_validator.is_usa_location(bio, location)
CallIsUsaLocation ==
    FilterReturn("located",
                 is_usa_location(profile_data.bio, profile_data.location)
                 @@ FilterFrame)

\* ProfileFilter(config, ...).should_target_profile(profile_data, filters)
CallConfiguredFilter ==
    \E text \in ExcludeTexts :
        FilterReturn("configured",
                     ShouldTargetProfileWith(ParseExcludeKeywords(text),
                                             profile_data, user_filters)
                     @@ [exclude_text |-> text] @@ FilterFrame)

FilterNext ==
    \/ CallApplyAllFilters
    \/ CallConfiguredFilter
    \/ CallShouldTargetProfile
    \/ CallIsUsaLocation

SpecFilter == FilterInit /\ [][FilterNext]_vars

-----------------------------------------------------------------------------
(* SpecCounts: reading a count from the text a page renders.  float() and  *)
(* the float product are computed as IEEE 754 binary64 does, on bit        *)
(* sequences (most significant bit first), because int() truncates.        *)

DoubleMantissaBits == 53

\* The bit arithmetic works on chunks of ChunkBits bits, which keeps every
\* intermediate number inside the integers TLC computes with.
ChunkBits == 10
ChunkBase == 2 ^ ChunkBits

\* Chunks of binary places carried by the division that converts a decimal
\* text; any number that leaves more than DoubleMantissaBits + 1 quotient
\* bits will do.
PreShiftChunks == 7

Zeros(k) == [i \in 1..k |-> 0]

\* n < 2^width as width bits.
BitsOf(n, width) == [i \in 1..width |-> (n \div (2 ^ (width - i))) % 2]

StripLeadingZeros(b) ==
    LET ones == {i \in 1..Len(b) : b[i] = 1}
    IN IF ones = {} THEN <<>>
       ELSE SubSeq(b, CHOOSE i \in ones : \A j \in ones : i <= j, Len(b))

NatToBits(n) == StripLeadingZeros(BitsOf(n, 31))

RECURSIVE ChunkValue(_)
ChunkValue(b) ==
    IF Len(b) = 0 THEN 0
    ELSE 2 * ChunkValue(SubSeq(b, 1, Len(b) - 1)) + b[Len(b)]

RECURSIVE BitsToNat(_)
BitsToNat(b) ==
    IF Len(b) <= ChunkBits THEN ChunkValue(b)
    ELSE ChunkBase * BitsToNat(SubSeq(b, 1, Len(b) - ChunkBits))
         + ChunkValue(SubSeq(b, Len(b) - ChunkBits + 1, Len(b)))

\* b + 1
IncBits(b) ==
    LET zeros == {i \in 1..Len(b) : b[i] = 0}
    IN IF zeros = {} THEN <<1>> \o Zeros(Len(b))
       ELSE LET last == CHOOSE i \in zeros : \A j \in zeros : i >= j
            IN [i \in 1..Len(b) |->
                   IF i < last THEN b[i] ELSE IF i = last THEN 1 ELSE 0]

\* The next `chunks` chunks of the binary expansion of r / d (r < d), and
\* the remainder left.
RECURSIVE FractionChunks(_, _, _)
FractionChunks(r, d, chunks) ==
    IF chunks = 0 THEN [q |-> <<>>, r |-> r]
    ELSE LET t == r * ChunkBase
             rest == FractionChunks(t % d, d, chunks - 1)
         IN [q |-> BitsOf(t \div d, ChunkBits) \o rest.q, r |-> rest.r]

\* floor(n * 2^(ChunkBits * chunks) / d) as bits, and the remainder.
DivBits(n, d, chunks) ==
    LET frac == FractionChunks(n % d, d, chunks)
    IN [q |-> NatToBits(n \div d) \o frac.q, r |-> frac.r]

\* b (a whole number of chunks) times the small number k, plus carry.
RECURSIVE MulChunks(_, _, _)
MulChunks(b, carry, k) ==
    IF Len(b) = 0 THEN NatToBits(carry)
    ELSE LET t == ChunkValue(SubSeq(b, Len(b) - ChunkBits + 1, Len(b))) * k
                  + carry
         IN MulChunks(SubSeq(b, 1, Len(b) - ChunkBits), t \div ChunkBase, k)
            \o BitsOf(t % ChunkBase, ChunkBits)

\* b times the small number k.
MulBits(b, k) ==
    MulChunks(Zeros((ChunkBits - (Len(b) % ChunkBits)) % ChunkBits) \o b, 0, k)

\* Round to nearest, ties to even, keeping DoubleMantissaBits bits: the
\* mantissa m and the number of bits dropped; the value is m * 2^dropped.
\* inexact says that the bits stand for a number slightly larger.
RoundToDouble(bits, inexact) ==
    LET s == StripLeadingZeros(bits)
        L == Len(s)
    IN IF L <= DoubleMantissaBits THEN [m |-> s, dropped |-> 0]
       ELSE LET keep == SubSeq(s, 1, DoubleMantissaBits)
                guard == s[DoubleMantissaBits + 1]
                sticky == inexact \/ \E i \in (DoubleMantissaBits + 2)..L : s[i] = 1
                up == guard = 1 /\ (sticky \/ keep[DoubleMantissaBits] = 1)
            IN [m |-> IF up THEN IncBits(keep) ELSE keep,
                dropped |-> L - DoubleMantissaBits]

\* The double m * 2^exp as a record; zero has m = <<>>.
\* float(text) for a text with digits n and f digits after the point.
DecimalToDouble(n, f) ==
    LET d == DivBits(n, 10 ^ f, PreShiftChunks)
        r == RoundToDouble(d.q, d.r # 0)
    IN [m |-> r.m, exp |-> r.dropped - ChunkBits * PreShiftChunks]

\* x * k for a double x and an integer k, rounded to a double.
DoubleTimes(x, k) ==
    LET r == RoundToDouble(MulBits(x.m, k), FALSE)
    IN [m |-> r.m, exp |-> x.exp + r.dropped]

\* int(x): truncation toward zero of a non-negative double.
DoubleToInt(x) ==
    IF x.exp >= 0 THEN BitsToNat(x.m \o Zeros(x.exp))
    ELSE IF -x.exp >= Len(x.m) THEN 0
    ELSE BitsToNat(SubSeq(x.m, 1, Len(x.m) + x.exp))

DigitChars == "0123456789"

IsDigit(c) == \E i \in 1..Len(DigitChars) : SubSeq(DigitChars, i, i) = c

DigitValue(c) ==
    (CHOOSE i \in 1..Len(DigitChars) : SubSeq(DigitChars, i, i) = c) - 1

IsDigits(s) == \A i \in 1..Len(s) : IsDigit(SubSeq(s, i, i))

RECURSIVE DigitsToNat(_)
DigitsToNat(s) ==
    IF Len(s) = 0 THEN 0
    ELSE 10 * DigitsToNat(SubSeq(s, 1, Len(s) - 1))
         + DigitValue(SubSeq(s, Len(s), Len(s)))

\* int(s): the value, or ValueError.  The texts here hold digits, '.', ',',
\* ' ', '/' and capital letters only, so a valid literal is a run of digits.
PyInt(s) ==
    IF Len(s) > 0 /\ IsDigits(s) THEN [ok |-> TRUE, value |-> DigitsToNat(s)]
    ELSE [ok |-> FALSE, value |-> 0]

\* float(s): the double, or ValueError: digits with at most one point.
PyFloat(s) ==
    LET points == {i \in 1..Len(s) : SubSeq(s, i, i) = "."}
        digits == Replace(s, ".", "")
        f == IF points = {} THEN 0
             ELSE Len(s) - (CHOOSE i \in points : TRUE)
    IN IF Cardinality(points) <= 1 /\ Len(digits) > 0 /\ IsDigits(digits)
       THEN [ok |-> TRUE, value |-> DecimalToDouble(DigitsToNat(digits), f)]
       ELSE [ok |-> FALSE, value |-> [m |-> <<>>, exp |-> 0]]

\* The number a rendered count stands for: digits with the commas dropped,
\* a decimal times 1,000 for K and times 1,000,000 for M, in exact decimal
\* arithmetic; 0 for any other text.
NormalisedCount(count_str) ==
    LET s == Replace(Replace(count_str, ",", ""), " ", "")
        scaled(suffix, k) ==
            LET t == Replace(s, suffix, "")
                points == {i \in 1..Len(t) : SubSeq(t, i, i) = "."}
                digits == Replace(t, ".", "")
                f == IF points = {} THEN 0
                     ELSE Len(t) - (CHOOSE i \in points : TRUE)
            IN IF PyFloat(t).ok
               THEN (DigitsToNat(digits) * (k \div (10 ^ f)))
               ELSE 0
    IN IF Contains("K", s) THEN scaled("K", 1000)
       ELSE IF Contains("M", s) THEN scaled("M", 1000000)
       ELSE IF PyInt(s).ok THEN PyInt(s).value
       ELSE 0

\* ScrapingEngine.parse_count: ValueError gives 0.
parse_count(count_str) ==
    LET s == Replace(Replace(count_str, ",", ""), " ", "")
        scaled(suffix, k) ==
            LET x == PyFloat(Replace(s, suffix, ""))
            IN IF x.ok THEN DoubleToInt(DoubleTimes(x.value, k)) ELSE 0
    IN IF Contains("K", s) THEN scaled("K", 1000)
       ELSE IF Contains("M", s) THEN scaled("M", 1000000)
       ELSE IF PyInt(s).ok THEN PyInt(s).value
       ELSE 0

\* get_profile_data: the text of a stats element as handed to parse_count.
StatsText(element_text) ==
    Replace(Replace(Replace(element_text, ",", ""), "K", "000"), "M", "000000")

\* The count get_profile_data stores for a stats element.
ExtractCount(element_text) == parse_count(StatsText(element_text))

\* Texts a profile page renders for a count.
IntegerParts == {"1", "12", "32", "450", "999"}
Fractions == {"", ".1", ".3", ".5"}
RenderedCounts ==
    IntegerParts
    \cup {i \o f \o suffix : i \in IntegerParts, f \in Fractions,
                             suffix \in {"K", "M"}}
    \cup {"1,234", "12,345", "N/A"}

CountFrame(text) == [text |-> text, count |-> 0]

CountInit ==
    /\ pc = "stats_element"
    /\ \E text \in RenderedCounts : frame = CountFrame(text)
    /\ profile_data = "none"
    /\ user_filters = [max_depth |-> MaxDepthBound, max_profiles |-> SeedBudget]
    /\ run = 1
    /\ session_data = NewSession(1)
    /\ disk = NoFile
    /\ stats = Stats0
    /\ should_stop = FALSE
    /\ driver = "live"
    /\ username = ""
    /\ exit_kind = "none"
    /\ hist = Hist0(NewSession(1), NoFile)

CountReturn(at, count) ==
    /\ pc = "stats_element"
    /\ pc' = at
    /\ frame' = [frame EXCEPT !.count = count]
    /\ UNCHANGED <<run, user_filters, session_data, disk, stats, should_stop,
                   driver, username, profile_data, exit_kind, hist>>

\* self.parse_count(count_str)
CallParseCount == CountReturn("parsed", parse_count(frame.text))

\* profile_data['follower_count'] = self.parse_count(text)
StoreCount == CountReturn("extracted", ExtractCount(frame.text))

CountNext == CallParseCount \/ StoreCount

SpecCounts == CountInit /\ [][CountNext]_vars

-----------------------------------------------------------------------------
(* SpecProxy: ProxyManager as an object, used as the scraping engine uses  *)
(* it: get_next_proxy, and mark_proxy_failed on the proxy last obtained.   *)

MaxProxies == 2
MaxProxyOps == 4

\* Python values of differing types, as records that can be compared.
NoneValue == [type |-> "NoneType"]
Dict(items) == [type |-> "dict", items |-> items]
Truthy(v) == v # NoneValue /\ v # Dict({})

\* dict.get(key, default)
DictGet(d, key, default) ==
    IF \E item \in d.items : item[1] = key
    THEN (CHOOSE item \in d.items : item[1] = key)[2]
    ELSE default

\* str.split(':'): the parts between the colons, in order.
SplitColon(s) ==
    CHOOSE parts \in
        {[k \in 1..(Cardinality(colons) + 1) |->
            LET nth(j) == CHOOSE c \in colons :
                             Cardinality({d \in colons : d <= c}) = j
                first == IF k = 1 THEN 1 ELSE nth(k - 1) + 1
                last == IF k > Cardinality(colons) THEN Len(s) ELSE nth(k) - 1
            IN IF last < first THEN "" ELSE SubSeq(s, first, last)] :
         colons \in {{i \in 1..Len(s) : SubSeq(s, i, i) = ":"}}} : TRUE

\* ProxyManager.format_proxy
format_proxy(proxy) ==
    CHOOSE formatted \in
        {IF Len(parts) >= 2
         THEN LET proxy_url ==
                      IF Len(parts) >= 4
                      THEN "http://" \o parts[3] \o ":" \o parts[4] \o "@"
                           \o parts[1] \o ":" \o parts[2]
                      ELSE "http://" \o parts[1] \o ":" \o parts[2]
              IN Dict({<<"http", proxy_url>>, <<"https", proxy_url>>})
         ELSE Dict({}) : parts \in {SplitColon(proxy)}} : TRUE

\* ProxyManager.get_next_proxy on the manager pm: the value returned and the
\* index left.  Indexes are those of Python, from 0.
get_next_proxy(pm) ==
    LET n == Len(pm.proxies)
        at(k) == pm.proxies[((pm.current_proxy_index + k) % n) + 1]
        free == {k \in 0..(n - 1) : at(k) \notin pm.failed_proxies}
    IN IF n = 0 \/ free = {}
       THEN [value |-> NoneValue, index |-> pm.current_proxy_index]
       ELSE LET k == CHOOSE j \in free : \A l \in free : j <= l
            IN [value |-> format_proxy(at(k)),
                index |-> (pm.current_proxy_index + k + 1) % n]

\* ProxyManager.mark_proxy_failed: the failed set left.
mark_proxy_failed(pm, proxy) ==
    IF Truthy(proxy)
    THEN pm.failed_proxies \cup {DictGet(proxy, "http", "")}
    ELSE pm.failed_proxies

\* Lines of a proxy file: the two forms the file's own header names, and the
\* header lines create_template_proxy_file writes.
WellFormedLines == {"10.0.0.1:8080", "10.0.0.2:3128:user:pass"}
MalformedLines ==
    {"# Add your proxies here, one per line",
     "# Format: ip:port or ip:port:username:password"}
ProxyLines == WellFormedLines \cup MalformedLines

\* ProxyManager.load_proxies: the stripped, non-blank lines of the file.
ProxyFiles ==
    UNION {[1..n -> ProxyLines] : n \in 0..MaxProxies}

\* The manager after __init__, the engine's current_proxy, and for the
\* properties the identities handed to mark_proxy_failed so far.
ProxyFrame(lines) ==
    [proxies |-> lines, current_proxy_index |-> 0, failed_proxies |-> {},
     current_proxy |-> NoneValue, marked |-> {}, last_op |-> "init", calls |-> 0]

ProxyInit ==
    /\ pc = "proxy"
    /\ \E lines \in ProxyFiles : frame = ProxyFrame(lines)
    /\ profile_data = "none"
    /\ user_filters = [max_depth |-> MaxDepthBound, max_profiles |-> SeedBudget]
    /\ run = 1
    /\ session_data = NewSession(1)
    /\ disk = NoFile
    /\ stats = Stats0
    /\ should_stop = FALSE
    /\ driver = "none"
    /\ username = ""
    /\ exit_kind = "none"
    /\ hist = Hist0(NewSession(1), NoFile)

\* self.current_proxy = self.proxy_manager.get_next_proxy()
ProxyGetNext ==
    /\ pc = "proxy"
    /\ frame.calls < MaxProxyOps
    /\ LET r == get_next_proxy(frame)
       IN frame' = [frame EXCEPT !.current_proxy = r.value,
                                 !.current_proxy_index = r.index,
                                 !.last_op = "get_next_proxy",
                                 !.calls = @ + 1]
    /\ UNCHANGED <<pc, run, user_filters, session_data, disk, stats, should_stop,
                   driver, username, profile_data, exit_kind, hist>>

\* if self.proxy_manager and self.current_proxy:
\*     self.proxy_manager.mark_proxy_failed(self.current_proxy)
ProxyMarkFailed ==
    /\ pc = "proxy"
    /\ frame.calls < MaxProxyOps
    /\ Truthy(frame.current_proxy)
    /\ frame' = [frame EXCEPT
                    !.failed_proxies = mark_proxy_failed(frame, frame.current_proxy),
                    !.marked = @ \cup {frame.current_proxy},
                    !.last_op = "mark_proxy_failed",
                    !.calls = @ + 1]
    /\ UNCHANGED <<pc, run, user_filters, session_data, disk, stats, should_stop,
                   driver, username, profile_data, exit_kind, hist>>

ProxyNext == ProxyGetNext \/ ProxyMarkFailed

SpecProxy == ProxyInit /\ [][ProxyNext]_vars

-----------------------------------------------------------------------------
(* ScrapingEngine.login_to_instagram                                       *)

max_attempts == 3

\* What the page and the driver can raise inside an attempt: selenium's
\* timeouts and element errors, and AttributeError on a driver that is None.
PageErrors ==
    {"TimeoutException", "NoSuchElementException", "WebDriverException",
     "AttributeError"}

\* except Exception as e: every one of them is an Exception.
LoginCaughtTimeoutOnly(e) == e = "TimeoutException"
LoginCaught(e) == e \in PageErrors

\* initialize_driver from the proxy choice on: the engine's manager state
\* after get_next_proxy, and the driver webdriver.Chrome and execute_script
\* leave. Every exception is caught and answered with False.
initialize_driver(f, d) ==
    LET r == IF f.proxy_manager /\ f.use_proxies
             THEN get_next_proxy(f)
             ELSE [value |-> f.current_proxy, index |-> f.current_proxy_index]
        g == [f EXCEPT !.current_proxy = r.value,
                       !.current_proxy_index = r.index]
    IN {[ok |-> TRUE, driver |-> "live", frame |-> g],
        [ok |-> FALSE, driver |-> d, frame |-> g],
        [ok |-> FALSE, driver |-> "live", frame |-> g]}

\* The engine and its manager when login_to_instagram is entered, with what
\* has happened in the call so far: try blocks entered, the errors raised, the
\* re-initialisations that failed, and for each rotation of the proxy the
\* number of attempts made before it.
LoginFrame(lines, use_proxies, proxy_manager) ==
    [proxies |-> lines, current_proxy_index |-> 0, failed_proxies |-> {},
     current_proxy |-> NoneValue, proxy_manager |-> proxy_manager,
     use_proxies |-> use_proxies, attempt |-> 0, attempts |-> 0,
     result |-> "pending", raised |-> {}, reinit_failed |-> 0,
     rotated_after |-> <<>>]

\* The caller has initialised the driver and found no session.
LoginInit ==
    /\ pc = "login_for"
    /\ \E lines \in ProxyFiles, use_proxies \in BOOLEAN, proxy_manager \in BOOLEAN :
         \E o \in initialize_driver(LoginFrame(lines, use_proxies, proxy_manager),
                                    "none") :
            o.ok /\ frame = o.frame
    /\ driver = "live"
    /\ profile_data = "none"
    /\ user_filters = [max_depth |-> MaxDepthBound, max_profiles |-> SeedBudget]
    /\ run = 1
    /\ session_data = NewSession(1)
    /\ disk = NoFile
    /\ stats = Stats0
    /\ should_stop = FALSE
    /\ username = ""
    /\ exit_kind = "none"
    /\ hist = Hist0(NewSession(1), NoFile)

\* Leaving the call: a return value, or an exception nothing caught.
LoginReturn(f, value) == [f EXCEPT !.result = value]

\* An exception inside the try block: to the handler, or out of the call.
LoginRaise(f, e) ==
    IF LoginCaught(e)
    THEN [pc |-> "login_except", frame |-> [f EXCEPT !.raised = @ \cup {e}]]
    ELSE [pc |-> "login_done",
          frame |-> LoginReturn([f EXCEPT !.raised = @ \cup {e}], "raised")]

\* for attempt in range(max_attempts): ... ; after the loop, return False
LoginFor ==
    /\ pc = "login_for"
    /\ IF frame.attempt < max_attempts
       THEN /\ pc' = "login_try"
            /\ frame' = [frame EXCEPT !.attempts = @ + 1]
       ELSE /\ pc' = "login_done"
            /\ frame' = LoginReturn(frame, "False")
    /\ UNCHANGED <<run, user_filters, session_data, disk, stats, should_stop,
                   driver, username, profile_data, exit_kind, hist>>

\* The try block up to the click on the login button. A TimeoutException of
\* the cookies popup is passed over; a driver that is None raises on get.
LoginSubmit ==
    /\ pc = "login_try"
    /\ \E e \in PageErrors \cup {"none"} :
        /\ driver = "none" => e = "AttributeError"
        /\ driver = "live" => e # "AttributeError"
        /\ IF e = "none"
           THEN pc' = "login_check" /\ UNCHANGED frame
           ELSE LET o == LoginRaise(frame, e)
                IN pc' = o.pc /\ frame' = o.frame
    /\ UNCHANGED <<run, user_filters, session_data, disk, stats, should_stop,
                   driver, username, profile_data, exit_kind, hist>>

\* What the page shows after the click.
LoginPages == {"logged_in", "incorrect", "other_error", "no_error_element"}

\* The rest of the try block: the URL check, the two popups, the error text.
LoginCheck ==
    /\ pc = "login_check"
    /\ \E page \in LoginPages, e \in {"none", "WebDriverException"} :
        IF e # "none"
        THEN LET o == LoginRaise(frame, e)
             IN pc' = o.pc /\ frame' = o.frame
        ELSE IF page = "logged_in"
        THEN pc' = "login_done" /\ frame' = LoginReturn(frame, "True")
        ELSE IF page = "incorrect"
        THEN pc' = "login_done" /\ frame' = LoginReturn(frame, "False")
        ELSE /\ pc' = "login_for"
             /\ frame' = [frame EXCEPT !.attempt = @ + 1]
    /\ UNCHANGED <<run, user_filters, session_data, disk, stats, should_stop,
                   driver, username, profile_data, exit_kind, hist>>

\* The except block: before the last attempt, the failed proxy is marked
\* and the driver replaced; a failed initialize_driver continues the loop.
LoginExcept ==
    /\ pc = "login_except"
    /\ pc' = "login_for"
    /\ IF /\ frame.attempt < max_attempts - 1
          /\ frame.proxy_manager
          /\ Truthy(frame.current_proxy)
       THEN \E d \in cleanup_driver(driver) :
              \E o \in initialize_driver(
                         [frame EXCEPT !.failed_proxies =
                             mark_proxy_failed(frame, frame.current_proxy)], d) :
                 /\ driver' = o.driver
                 /\ frame' = [o.frame EXCEPT
                                 !.attempt = @ + 1,
                                 !.reinit_failed = IF o.ok THEN @ ELSE @ + 1,
                                 !.rotated_after = Append(@, frame.attempts)]
       ELSE /\ frame' = [frame EXCEPT !.attempt = @ + 1]
            /\ UNCHANGED driver
    /\ UNCHANGED <<run, user_filters, session_data, disk, stats, should_stop,
                   username, profile_data, exit_kind, hist>>

LoginNext == LoginFor \/ LoginSubmit \/ LoginCheck \/ LoginExcept

\* One thread runs the call, and every wait in it has a timeout.
SpecLogin == LoginInit /\ [][LoginNext]_vars /\ WF_vars(LoginNext)

-----------------------------------------------------------------------------
(* ScrapingEngine.get_followers                                            *)

MaxLimit == 25
MaxDialog == 13

expected_per_scroll == 12

\* max_scroll_attempts = limit // 12
MaxScrollAttemptsTripled(limit) == 3 * (limit \div expected_per_scroll)

MaxScrollAttempts(limit) == limit \div expected_per_scroll

\* while len(followers) < limit and scroll_attempts < max_scroll_attempts
ScrollLoopContinues(f) ==
    Cardinality(f.followers) < f.limit /\ f.scroll_attempts < f.max_scroll_attempts

\* list(followers)[:limit]: the set in the order its iteration gives, cut.
FollowersList(followers, limit) ==
    IF Cardinality(followers) <= limit THEN {followers}
    ELSE {S \in SUBSET followers : Cardinality(S) = limit}

\* The locals of one call; followers are numbered in the order the dialog
\* lists them and dialog is how many of them it shows.  For the properties:
\* the passes of the loop begun, whether the dialog was opened, whether its
\* close button was looked for and whether the click went through.
FollowersFrame(limit) ==
    [limit |-> limit, followers |-> {}, scroll_attempts |-> 0,
     max_scroll_attempts |-> 0, dialog |-> 0, passes |-> 0, opened |-> FALSE,
     close_attempted |-> FALSE, closed |-> FALSE, returned |-> {}]

FollowersInit ==
    /\ pc = "gf_open"
    /\ \E limit \in 0..MaxLimit : frame = FollowersFrame(limit)
    /\ driver = "live"
    /\ profile_data = "none"
    /\ user_filters = [max_depth |-> MaxDepthBound, max_profiles |-> SeedBudget]
    /\ run = 1
    /\ session_data = NewSession(1)
    /\ disk = NoFile
    /\ stats = Stats0
    /\ should_stop = FALSE
    /\ username = ""
    /\ exit_kind = "none"
    /\ hist = Hist0(NewSession(1), NoFile)

FollowersUnchanged ==
    UNCHANGED <<run, user_filters, session_data, disk, stats, should_stop,
                driver, username, profile_data, exit_kind, hist>>

\* The profile page, the click on the followers link, and the locals set
\* before the loop; an exception here returns [].
FollowersOpen ==
    /\ pc = "gf_open"
    /\ \/ /\ pc' = "gf_done"
          /\ UNCHANGED frame
       \/ \E shown \in 0..MaxDialog :
            /\ frame' = [frame EXCEPT
                            !.opened = TRUE, !.dialog = shown,
                            !.max_scroll_attempts = MaxScrollAttempts(frame.limit)]
            /\ pc' = "gf_while"
    /\ FollowersUnchanged

\* The test of the while loop.
FollowersWhile ==
    /\ pc = "gf_while"
    /\ IF ScrollLoopContinues(frame)
       THEN pc' = "gf_pass" /\ frame' = [frame EXCEPT !.passes = @ + 1]
       ELSE pc' = "gf_closing" /\ UNCHANGED frame
    /\ FollowersUnchanged

\* One pass of the loop: the links of the dialog are collected, the dialog
\* is scrolled and may show more.  An exception before or after the
\* collection breaks out of the loop.
FollowersPass ==
    /\ pc = "gf_pass"
    /\ \/ /\ pc' = "gf_closing"
          /\ \E collected \in BOOLEAN :
               frame' = [frame EXCEPT
                            !.followers = IF collected THEN @ \cup (1..frame.dialog)
                                          ELSE @]
       \/ \E shown \in frame.dialog..MaxDialog :
            /\ frame' = [frame EXCEPT
                            !.followers = @ \cup (1..frame.dialog),
                            !.dialog = shown,
                            !.scroll_attempts = @ + 1]
            /\ pc' = "gf_while"
    /\ FollowersUnchanged

\* The close button inside `try: ... except: pass`, and the return.
FollowersClose ==
    /\ pc = "gf_closing"
    /\ \E clicked \in BOOLEAN, l \in FollowersList(frame.followers, frame.limit) :
         frame' = [frame EXCEPT !.close_attempted = TRUE, !.closed = clicked,
                                !.returned = l]
    /\ pc' = "gf_done"
    /\ FollowersUnchanged

FollowersNext ==
    FollowersOpen \/ FollowersWhile \/ FollowersPass \/ FollowersClose

\* One thread runs the call, and every wait in it has a timeout.
SpecFollowers == FollowersInit /\ [][FollowersNext]_vars /\ WF_vars(FollowersNext)

-----------------------------------------------------------------------------
(* SpecValidate: the quality check of one fetched record.  Engagement      *)
(* rates are kept in tenths of a percent, as in SpecFilter.                *)

\* `not profile_data.get(field)` for a text field and for a count.
MissingText(s) == s = ""
MissingCount(n) == n = 0

\* The required fields, in the order the validator visits them.
MissingRequiredFields(pd) ==
    (IF MissingText(pd.username) THEN <<"username">> ELSE <<>>)
    \o (IF MissingCount(pd.follower_count) THEN <<"follower_count">> ELSE <<>>)
    \o (IF MissingCount(pd.post_count) THEN <<"post_count">> ELSE <<>>)
    \o (IF MissingText(pd.bio) THEN <<"bio">> ELSE <<>>)

suspicious_keywords == {"bot", "fake", "spam", "test account"}

\* The warnings, each with the points it takes off the quality score.
QualityWarnings(pd) ==
    (IF pd.follower_count = 0 THEN <<<<"Zero follower count", 10>>>>
     ELSE IF pd.follower_count > 10000000
     THEN <<<<"Unusually high follower count (possible celebrity)", 5>>>>
     ELSE <<>>)
    \o (IF pd.engagement_rate > 200
        THEN <<<<"Very high engagement rate (possible bot activity)", 15>>>>
        ELSE IF pd.engagement_rate < 1 /\ pd.follower_count > 1000
        THEN <<<<"Very low engagement rate (possible inactive account)", 10>>>>
        ELSE <<>>)
    \o (IF Len(pd.bio) < 10 THEN <<<<"Very short bio", 5>>>> ELSE <<>>)
    \o (IF \E keyword \in suspicious_keywords : Contains(keyword, Lower(pd.bio))
        THEN <<<<"Suspicious keywords in bio", 10>>>>
        ELSE <<>>)

RECURSIVE SumPoints(_)
SumPoints(ws) == IF ws = <<>> THEN 0 ELSE ws[1][2] + SumPoints(Tail(ws))

\* ProfileValidator.validate_profile_data
validate_profile_data(pd) ==
    LET missing == MissingRequiredFields(pd)
        ws == QualityWarnings(pd)
    IN [is_valid |-> missing = <<>>,
        warnings |-> [i \in 1..Len(ws) |-> ws[i][1]],
        errors |-> [i \in 1..Len(missing) |->
                        "Missing required field: " \o missing[i]],
        quality_score |-> 100 - 20 * Len(missing) - SumPoints(ws)]

LowQualityScore == 70

validate_and_score_profile_strict(pd) ==
    LET validation_result == validate_profile_data(pd)
    IN IF ~validation_result.is_valid
       THEN <<FALSE, validation_result.errors>>
       ELSE IF validation_result.quality_score < LowQualityScore
       THEN <<FALSE, validation_result.warnings>>
       ELSE <<TRUE, <<>>>>

\* HunterOrchestrator.validate_and_score_profile: (is_valid, warnings).
validate_and_score_profile(pd) ==
    LET validation_result == validate_profile_data(pd)
    IN IF ~validation_result.is_valid
       THEN <<FALSE, validation_result.errors>>
       ELSE IF validation_result.quality_score < LowQualityScore
       THEN <<TRUE, validation_result.warnings>>
       ELSE <<TRUE, <<>>>>

\* Records get_profile_data can return: counts of 0 and a biography of ""
\* are what it leaves when an attribute could not be read.
FetchedRecords ==
    [username : {"u1"},
     follower_count : {0, 5000, 10000001},
     post_count : {0, 60},
     bio : {"", "bot", "Texas mom", "Fitness coach in Austin",
            "spam test account here"},
     engagement_rate : {0, 50, 250}]

ValidateFrame ==
    [is_valid |-> FALSE, messages |-> <<>>, quality_score |-> 100,
     returned |-> FALSE]

ValidateInit ==
    /\ pc = "fetched"
    /\ profile_data \in FetchedRecords
    /\ frame = ValidateFrame
    /\ run = 1
    /\ user_filters = [max_depth |-> 0, max_profiles |-> 0]
    /\ session_data = NewSession(1)
    /\ disk = NoFile
    /\ stats = Stats0
    /\ should_stop = FALSE
    /\ driver = "live"
    /\ username = "u1"
    /\ exit_kind = "none"
    /\ hist = Hist0(NewSession(1), NoFile)

\* process_single_profile from the validation on: the record is returned to
\* the caller, or None is.
ValidateRecord ==
    /\ pc = "fetched"
    /\ LET r == validate_and_score_profile(profile_data)
       IN /\ frame' = [is_valid |-> r[1], messages |-> r[2],
                       quality_score |-> validate_profile_data(profile_data).quality_score,
                       returned |-> r[1]]
          /\ stats' = [stats EXCEPT !.valid_profiles_processed =
                                        IF r[1] THEN @ + 1 ELSE @]
    /\ pc' = "processed"
    /\ UNCHANGED <<run, user_filters, session_data, disk, should_stop, driver,
                   username, profile_data, exit_kind, hist>>

\* The caller: `if profile_data:` and then apply_all_filters(profile_data).
SubmitRecord ==
    /\ pc = "processed"
    /\ frame.returned
    /\ pc' = "submitted"
    /\ UNCHANGED <<run, user_filters, session_data, disk, stats, should_stop,
                   driver, frame, username, profile_data, exit_kind, hist>>

ValidateNext ==
    \/ ValidateRecord
    \/ SubmitRecord

SpecValidate == ValidateInit /\ [][ValidateNext]_vars

-----------------------------------------------------------------------------
(* Properties                                                              *)

NoDuplicateUsernames(hvts) ==
    \A i, j \in 1..Len(hvts) : i # j => hvts[i].username # hvts[j].username

\* Hops from an accepted profile back to a seed profile along source_hvt.
RECURSIVE ChainHops(_, _, _)
ChainHops(hvt, hvts, fuel) ==
    IF hvt.source_hvt = "initial_seed" \/ fuel = 0 THEN 0
    ELSE LET parents == {i \in 1..Len(hvts) : hvts[i].username = hvt.source_hvt}
         IN IF parents = {} THEN 1
            ELSE 1 + ChainHops(hvts[CHOOSE i \in parents : TRUE], hvts, fuel - 1)

Max(a, b) == IF a >= b THEN a ELSE b

\* C1 (SpecResume): get_profile_data is never called for a username that is
\* in seen_profiles or was in the examined set the session file held when the
\* process started; within a process no username is fetched twice; and the
\* accepted list holds at most one entry per username.
C1_FetchedAtMostOnce ==
    /\ pc = "gpd_navigate" =>
          /\ username \notin session_data.seen_profiles
          /\ username \notin hist.prior_seen
    /\ \A u \in Usernames : hist.fetch_count[u] <= 1
    /\ NoDuplicateUsernames(session_data.discovered_hvts)

\* A resumed process met a username the earlier process had examined, and
\* skipped it without a fetch.
C1_Witness ==
    /\ run = 2
    /\ \E u \in hist.skipped : u \in hist.prior_seen /\ hist.fetch_count[u] = 0
    /\ \E u \in Usernames : hist.fetch_count[u] = 1

\* C2 (Spec): when run_main_workflow has ended, total_profiles_scanned is at
\* most max_profiles.
C2_BudgetAtTermination ==
    pc = "exited" => stats.total_profiles_scanned <= user_filters.max_profiles

\* C3 (SpecExpansion): in the expansion phase no process_single_profile call
\* is under way with total_profiles_scanned >= max_profiles, so the counter
\* never passes the larger of max_profiles and its value when the phase began.
C3_BudgetBeforeEachFetch ==
    /\ pc \in {"psp_seen", "gpd_navigate", "gpd_extract", "psp_count"} =>
          stats.total_profiles_scanned < user_filters.max_profiles
    /\ stats.total_profiles_scanned <=
          Max(user_filters.max_profiles, hist.total_at_entry)

\* The follower loop stopped on the budget with followers of the current
\* source still unexamined.
C3_Witness ==
    /\ pc = "exp_source"
    /\ ~should_stop
    /\ frame.fol_i <= Len(frame.followers)
    /\ hist.total_at_entry < user_filters.max_profiles
    /\ stats.total_profiles_scanned = user_filters.max_profiles

\* C4 (SpecExpansion): current_depth never exceeds max_depth, no accepted
\* profile is more than max_depth hops from a seed profile, and with
\* max_depth = 0 get_followers is never called.
C4_DepthBound ==
    /\ stats.current_depth <= user_filters.max_depth
    /\ \A i \in 1..Len(session_data.discovered_hvts) :
          ChainHops(session_data.discovered_hvts[i], session_data.discovered_hvts,
                    Len(session_data.discovered_hvts)) <= user_filters.max_depth
    /\ user_filters.max_depth = 0 => hist.follower_fetches = 0

\* The last allowed depth was processed, followers were fetched there, and
\* the depth loop has run out of depths.
C4_Witness ==
    /\ pc = "exp_depth"
    /\ frame.depth > user_filters.max_depth
    /\ stats.current_depth = user_filters.max_depth
    /\ hist.follower_fetches >= 1
    /\ stats.total_profiles_scanned > hist.total_at_entry

\* C5 (SpecStore): a load_session that directly follows a save_session that
\* wrote the file gives the session that was saved: the same examined set,
\* the same accepted list in the same order, the same counters.
C5_RoundTrip ==
    hist.store_op = "save_load" =>
        /\ session_data.seen_profiles = hist.pre_save.seen_profiles
        /\ session_data.discovered_hvts = hist.pre_save.discovered_hvts
        /\ session_data = hist.pre_save

\* A session with two examined usernames and an accepted profile was saved
\* and loaded.
C5_Witness ==
    /\ hist.store_op = "save_load"
    /\ Cardinality(session_data.seen_profiles) >= 2
    /\ Len(session_data.discovered_hvts) >= 1

\* C6 (SpecStore): add_hvt for a username that already has an entry in
\* discovered_hvts leaves the accepted list unchanged.
C6_ReacceptIsNoOp ==
    [][(/\ hist'.store_op = "add_hvt"
        /\ hist'.ops = hist.ops + 1
        /\ hist'.store_arg \in HvtUsernames(session_data.discovered_hvts))
       => session_data'.discovered_hvts = session_data.discovered_hvts]_vars

\* C7 (Spec): when run_main_workflow has been left, cleanup_driver has been
\* called and the engine holds no live driver.
C7_DriverReleased ==
    pc = "exited" => hist.cleanup_invoked /\ driver # "live"

\* The login failed with the driver still live, and the workflow was left
\* with it released.
C7_Witness ==
    /\ pc = "exited"
    /\ exit_kind = "return_false"
    /\ stats.total_profiles_scanned = 0
    /\ driver = "none"
    /\ hist.cleanup_invoked

\* C8 (Spec): when run_main_workflow has been left, by return or by an
\* exception passing through, save_session has been called, and called after
\* the last change to the session.
C8_SavedOnExit ==
    pc = "exited" => hist.save_invoked /\ hist.last_saved = session_data

\* The main loop died of an exception after a profile was examined, and the
\* file holds the session as it was left.
C8_Witness ==
    /\ pc = "exited"
    /\ exit_kind = "raised"
    /\ session_data.seen_profiles # {}
    /\ ~should_stop
    /\ disk \in SavedFiles(session_data)

\* C9 (Spec): once the stop flag is set no further profile examination and
\* no further follower fetch begins, save_session has been called, and when
\* the workflow has been left the last save is of the session as left and the
\* driver is released.
C9_StopSignal ==
    should_stop =>
        /\ pc \notin {"psp_seen", "gpd_navigate", "get_followers"}
        /\ hist.save_invoked
        /\ pc = "exited" => hist.last_saved = session_data /\ driver # "live"

\* The handler's SystemExit was swallowed, the profile under examination was
\* finished, and the seed loop stopped at its next iteration with seeds left.
C9_Witness ==
    /\ should_stop
    /\ pc = "seed_done"
    /\ frame.seed_i <= Len(frame.seed_usernames)
    /\ session_data.seen_profiles # {}

\* C10 (Spec): cancellation is cooperative: a page operation under way keeps
\* its live browsing session and is never cut short.
C10_Cooperative ==
    /\ pc \in InFlightPcs => driver = "live"
    /\ ~hist.op_aborted

\* C11 (SpecExpansion): when a depth level of the expansion has ended,
\* save_session has been called and the saved session is the session as it
\* stands at that boundary.
C11_SavedAtPhaseBoundaries ==
    (pc = "exp_depth" /\ frame.depth > 1) =>
        hist.save_invoked /\ hist.last_saved = session_data

\* C12 (SpecFilter): a record whose follower count is outside
\* [min_followers, max_followers] is rejected by apply_all_filters with the
\* follower-range reason, whatever its other fields and whatever include and
\* exclude keywords the session has.
C12_HardRejectPrecedence ==
    (/\ pc = "qualified"
     /\ \/ profile_data.follower_count < user_filters.min_followers
        \/ profile_data.follower_count > user_filters.max_followers)
    => /\ ~frame.should_target
       /\ frame.reason = "Follower count outside range"

\* The predicates of the chain in the stated order, each with the reason its
\* failure gives.
ChainOrder ==
    <<"Follower count outside range", "Post count below minimum",
      "Verified account (excluded by preference)", "Private profile",
      "Location check failed", "No active story found", "No profile picture",
      "Commercial intent detected in bio", "Excluded keyword found",
      "Engagement rate outside normal range (possible bot)">>

PredicateFails(i, pd, uf) ==
    CASE i = 1 -> pd.follower_count < uf.min_followers
                  \/ pd.follower_count > uf.max_followers
      [] i = 2 -> pd.post_count < uf.min_posts
      [] i = 3 -> pd.is_verified
      [] i = 4 -> pd.is_private
      [] i = 5 -> ~is_usa_location(pd.bio, pd.location).is_usa
      [] i = 6 -> ~pd.has_active_story
      [] i = 7 -> require_profile_pic /\ pd.profile_pic_url = ""
      [] i = 8 -> has_commercial_intent(pd.bio)
      [] i = 9 -> \E k \in exclude_keywords : Contains(k, Lower(pd.bio))
      [] i = 10 -> /\ pd.engagement_rate > 0
                   /\ \/ pd.engagement_rate < min_engagement_rate
                      \/ pd.engagement_rate > max_engagement_rate

StartsWith(s, prefix) ==
    Len(s) >= Len(prefix) /\ SubSeq(s, 1, Len(prefix)) = prefix

FailingPredicates(pd, uf) ==
    {i \in 1..Len(ChainOrder) : PredicateFails(i, pd, uf)}

\* C13 (SpecFilter): should_target_profile rejects with the reason of the
\* earliest failing predicate in the order follower range, minimum posts,
\* verified, private, USA location, active story, profile image, commercial
\* intent, forbidden substrings, engagement band, and accepts only when no
\* predicate fails.
C13_OrderedShortCircuit ==
    pc = "targeted" =>
        LET failing == FailingPredicates(profile_data, user_filters)
        IN IF failing = {}
           THEN frame.should_target /\ frame.reason = "All criteria met"
           ELSE LET first == CHOOSE i \in failing : \A j \in failing : i <= j
                IN /\ ~frame.should_target
                   /\ StartsWith(frame.reason, ChainOrder[first])

\* A verified, private record with no story was rejected as verified; and
\* the case is reached with several later predicates failing too.
C13_Witness ==
    /\ pc = "targeted"
    /\ profile_data.is_verified /\ profile_data.is_private
    /\ ~profile_data.has_active_story
    /\ has_commercial_intent(profile_data.bio)
    /\ frame.reason = "Verified account (excluded by preference)"

\* C14 (SpecFilter): a follower count equal to min_followers or to
\* max_followers passes the range test and one less than min_followers (or
\* one more than max_followers) fails it; a post count equal to min_posts
\* passes and one less fails.
C14_InclusiveThresholds ==
    pc = "targeted" =>
        LET fc == profile_data.follower_count
            pcnt == profile_data.post_count
            range_reason == "Follower count outside range"
            posts_reason == "Post count below minimum"
        IN /\ fc \in {user_filters.min_followers, user_filters.max_followers}
                => frame.reason # range_reason
           /\ fc \in {user_filters.min_followers - 1, user_filters.max_followers + 1}
                => frame.reason = range_reason
           /\ (frame.reason # range_reason /\ pcnt = user_filters.min_posts)
                => frame.reason # posts_reason
           /\ (frame.reason # range_reason /\ pcnt = user_filters.min_posts - 1)
                => frame.reason = posts_reason

\* A record with exactly min_followers followers and exactly min_posts
\* posts was accepted.
C14_Witness ==
    /\ pc = "targeted"
    /\ profile_data.follower_count = user_filters.min_followers
    /\ profile_data.post_count = user_filters.min_posts
    /\ frame.should_target

\* C17 (SpecFilter): is_usa_location rejects the biography "Springfield"
\* with the 'without USA context' reason and accepts "Springfield, Illinois".
C17_AmbiguousCity ==
    (pc = "located" /\ profile_data.location = "") =>
        /\ profile_data.bio = "Springfield" =>
              /\ ~frame.is_usa
              /\ frame.reason = "Ambiguous city without USA context"
        /\ profile_data.bio = "Springfield, Illinois" => frame.is_usa

\* C15 (SpecCounts): parse_count returns the number the text stands for:
\* value x 1,000 for a decimal followed by K, value x 1,000,000 for M, the
\* integer for a plain or comma-separated integer, 0 for unparsable text.
C15_ParseCount ==
    pc = "parsed" => frame.count = NormalisedCount(frame.text)

\* C16 (SpecCounts): the count get_profile_data stores for a stats element
\* is the number its rendered text stands for, decimals with a K or M suffix
\* included.
C16_StoredCount ==
    pc = "extracted" => frame.count = NormalisedCount(frame.text)

\* The identities of the lines of the pool, and of its well-formed lines.
PoolIdentities(pm) == {format_proxy(pm.proxies[i]) : i \in 1..Len(pm.proxies)}

WellFormedIdentities(pm) ==
    {format_proxy(pm.proxies[i]) :
        i \in {j \in 1..Len(pm.proxies) : pm.proxies[j] \in WellFormedLines}}

\* C18 (SpecProxy): get_next_proxy never returns an identity that was handed
\* to mark_proxy_failed before, and returns None when every identity of the
\* pool has been marked failed.
C18_FailedExcluded ==
    frame.last_op = "get_next_proxy" =>
        /\ frame.current_proxy \notin frame.marked
        /\ PoolIdentities(frame) \subseteq frame.marked
              => frame.current_proxy = NoneValue

\* C19 (SpecProxy): get_next_proxy returns None or the identity of a
\* well-formed line of the pool, never one made from a malformed line, and
\* returns a well-formed identity whenever the pool holds a well-formed line
\* whose identity is not marked failed.
C19_MalformedSkipped ==
    frame.last_op = "get_next_proxy" =>
        /\ frame.current_proxy \in WellFormedIdentities(frame) \cup {NoneValue}
        /\ WellFormedIdentities(frame) \ frame.marked # {}
              => frame.current_proxy \in WellFormedIdentities(frame)

\* C20: login_to_instagram ends after at most max_attempts attempts, by a
\* return and never by an exception, and when the attempts are used up the
\* value returned is False, whatever page errors, timeouts and failed driver
\* re-initialisations happen on the way.
C20_LoginBounded ==
    /\ [](/\ frame.attempts <= max_attempts
          /\ frame.result # "raised"
          /\ (pc = "login_done" /\ frame.attempt >= max_attempts)
                => frame.result = "False")
    /\ <>(pc = "login_done" /\ frame.result \in {"True", "False"})

\* All three attempts fail, with a timeout, a page error and a failed
\* re-initialisation among the failures, and the call returns False.
C20_Witness ==
    /\ pc = "login_done"
    /\ frame.attempts = max_attempts
    /\ frame.result = "False"
    /\ {"TimeoutException", "WebDriverException"} \subseteq frame.raised
    /\ frame.reinit_failed >= 1

\* C21 (SpecLogin): the connection identity is rotated only after all
\* max_attempts attempts have failed, and once per call.
C21_RotationAfterAllAttempts ==
    /\ Len(frame.rotated_after) <= 1
    /\ \A i \in 1..Len(frame.rotated_after) :
          frame.rotated_after[i] = max_attempts

\* C22 (Spec): once login_to_instagram has returned False the workflow does
\* nothing but its finally clause: no discovery, no profile or follower
\* fetch; at exit the session has been saved as it stands, the driver has
\* been released, and main returns a non-zero code (the interrupt handler
\* alone ends the process in another way, by sys.exit).
C22_LoginFailureFatal ==
    hist.login_failed =>
        /\ pc \in {"finally_cleanup", "finally_save", "exited"}
        /\ \A u \in Usernames : hist.fetch_count[u] = 0
        /\ hist.follower_fetches = 0
        /\ pc = "exited" =>
              /\ hist.save_invoked /\ hist.last_saved = session_data
              /\ hist.cleanup_invoked /\ driver # "live"
              /\ exit_kind # "SystemExit" => MainExitCode(exit_kind) # 0

\* A failed login, and the workflow left by `return False` with the session
\* written.
C22_Witness ==
    /\ hist.login_failed
    /\ pc = "exited"
    /\ exit_kind = "return_false"
    /\ disk \in SavedFiles(session_data)

\* limit / expectedPerPage rounded up.
CeilDiv(a, b) == (a + b - 1) \div b

\* C23 (SpecFollowers): get_followers begins at most
\* ceil(limit / expected_per_scroll) + 1 passes of its scroll loop, whatever
\* the dialog shows; the call always returns, and when the dialog was opened
\* its close button has been looked for before the return.
C23_ScrollAttemptsCapped ==
    /\ [](/\ frame.passes <= CeilDiv(frame.limit, expected_per_scroll) + 1
          /\ (pc = "gf_done" /\ frame.opened) => frame.close_attempted)
    /\ <>(pc = "gf_done")

\* A call with limit 24 or more on a dialog that never shows enough: both
\* passes are made, the loop ends on the attempt cap, the dialog is closed.
C23_Witness ==
    /\ pc = "gf_done"
    /\ frame.passes = 2
    /\ frame.scroll_attempts = frame.max_scroll_attempts
    /\ Cardinality(frame.followers) < frame.limit
    /\ frame.closed

\* C24 (Spec): a page that says the profile does not exist ends the fetch at
\* once: one page load, nothing extracted, the error counter as it was; the
\* username is in the examined set when process_single_profile returns, and
\* the step that follows is the head of the loop it was called from.
C24_NotFoundIsDataFact ==
    /\ [](profile_data = "not_found" /\ pc \in {"psp_count", "psp_mark", "psp_validate"}
            => /\ hist.page_loads = 1
               /\ hist.fetch_count[username] = 1
               /\ username \notin hist.extracted
               /\ session_data.errors_encountered = hist.errors_before_fetch
               /\ pc = "psp_validate" => is_profile_seen(session_data, username))
    /\ [][(profile_data = "not_found" /\ pc = "psp_validate" /\ exit_kind' # "SystemExit")
            => pc' = LoopHead]_vars

\* The first of two seeds is not found, and the loop is at its head again
\* with the second seed still to come.
C24_Witness ==
    /\ pc = "seed_loop"
    /\ profile_data = "not_found"
    /\ frame.seed_i = 2
    /\ Len(frame.seed_usernames) = 2
    /\ username \in session_data.seen_profiles
    /\ session_data.errors_encountered = 0
    /\ ~should_stop

\* C25 (Spec): a profile fetch that fails on a transient error has loaded the
\* page max_retries times before it fails, and the session's error counter
\* is one more than before the fetch.
C25_RetriedBeforeFailing ==
    (profile_data = "error" /\ pc = "psp_count") =>
        /\ hist.page_loads = max_retries
        /\ session_data.errors_encountered = hist.errors_before_fetch + 1

\* C26 (SpecCrawl): a failed scrape of a hashtag is followed by the hashtag
\* loop, a fetch that gave no record or an invalid one by the head of the
\* loop it was called from, a get_followers that gave nothing by the loop
\* over the source profiles; and the only steps that leave the workflow by an
\* exception are the creation of an accepted profile and the export.
C26_LoopsSurviveErrors ==
    [][/\ pc = "tag_scrape" /\ exit_kind' # "SystemExit" => pc' = "tag_loop"
       /\ (/\ pc = "psp_validate"
           /\ profile_data \in {"not_found", "error", "invalid"}
           /\ exit_kind' # "SystemExit") => pc' = LoopHead
       /\ (/\ pc = "get_followers"
           /\ exit_kind' # "SystemExit"
           /\ frame'.followers = <<>>) => pc' = "exp_source"
       /\ (exit_kind = "none" /\ exit_kind' = "raised")
             => pc \in {"create", "export"}]_vars

\* A hashtag failed, the fetch of the first seed failed too, and the seed
\* loop is at its head with the second seed to come.
C26_Witness ==
    /\ pc = "seed_loop"
    /\ hist.tag_failures >= 1
    /\ profile_data = "error"
    /\ frame.seed_i = 2
    /\ Len(frame.seed_usernames) = 2
    /\ exit_kind = "none"

\* The profile create_hvt_profile is to build for the candidate in hand.
HvtInHand ==
    UserProfile(username, "All criteria met",
                IF frame.phase = "seed" THEN "initial_seed" ELSE frame.source_hvt)

\* C27 (SpecCrawl): the step that follows a passed qualification creates the
\* profile once, appends it to the session's accepted list and to the result
\* list (in the expansion, to the next queue as well), and goes on with the
\* loop.
C27_AcceptedOnce ==
    [][(pc = "create" /\ exit_kind' # "SystemExit") =>
          /\ pc' = "delay"
          /\ session_data'.discovered_hvts =
                Append(session_data.discovered_hvts, HvtInHand)
          /\ IF frame.phase = "seed"
             THEN frame'.initial_hvts = Append(frame.initial_hvts, HvtInHand)
             ELSE /\ frame'.all_hvts = Append(frame.all_hvts, HvtInHand)
                  /\ frame'.next_level_queue =
                        Append(frame.next_level_queue, HvtInHand)]_vars

\* C28 (SpecExpansion): export_results called with a non-empty list writes
\* one record per profile of the list, in the order of the list, and returns
\* the name of the file.
C28_OneRecordPerProfile ==
    hist.export_arg # <<>> =>
        /\ hist.csv_rows = hist.export_arg
        /\ hist.csv_file = "csv_filename"

C30_NextQueueIsAccepted ==
    [][/\ (/\ pc = "create"
           /\ frame.phase = "expansion"
           /\ exit_kind' # "SystemExit")
             => /\ frame'.next_level_queue =
                      Append(frame.next_level_queue, HvtInHand)
                /\ frame'.processing_queue = frame.processing_queue
       /\ pc = "exp_level_end" /\ exit_kind' # "SystemExit"
             => frame'.processing_queue = frame.next_level_queue]_vars

\* C31 (Spec): every username in the examined set of the session file has
\* been examined to the end: its record was dropped, or the filters rejected
\* it, or it was accepted and its entry is in the accepted list of the file.
C31_PersistedExaminedIsComplete ==
    disk.kind = "json" =>
        \A u \in PersistedSeen(disk) :
            /\ u \in hist.completed
            /\ hist.fetch_count[u] > 0

\* C32 (SpecStore): whatever happens during save_session, a session file
\* that could be loaded before still loads afterwards, as the session it
\* held or as the session being saved.
C32_SaveNeverLosesTheFile ==
    [][disk.kind = "json" =>
          load_session(disk', run) \in
              {load_session(disk, run)}
                  \cup {load_session(f, run) : f \in SavedFiles(session_data)}]_vars

\* C33 (SpecResume): in a resumed run the counter the budget tests read
\* includes the profiles examined in the earlier runs.
C33_BudgetCountsEarlierRuns ==
    run > 1 => stats.total_profiles_scanned >= Cardinality(hist.prior_seen)

\* The profiles of the queue in process whose followers are still to be
\* fetched.
AwaitingExpansion ==
    IF frame.src_i > Len(frame.processing_queue) THEN <<>>
    ELSE SubSeq(frame.processing_queue, frame.src_i, Len(frame.processing_queue))

\* C34 (SpecExpansion): when the interrupt handler saves the session during
\* the expansion, the session's current_depth is the depth the expansion has
\* reached and its processing_queue the profiles awaiting expansion; and the
\* session saved last has the depth the run ended at.
C34_StoreTracksProgress ==
    /\ [][(exit_kind' = "SystemExit" /\ frame.phase = "expansion") =>
             /\ session_data.current_depth = stats.current_depth
             /\ session_data.processing_queue = AwaitingExpansion]_vars
    /\ [](pc = "exited" /\ hist.save_invoked
             => hist.last_saved.current_depth = stats.current_depth)

C36_PersistedCounterIsExaminedSize ==
    (run = 1 /\ hist.save_invoked /\ exit_kind # "SystemExit") =>
        hist.last_saved.total_profiles_scanned =
            Cardinality(hist.last_saved.seen_profiles)

C38_IncompleteRecordsDropped ==
    LET incomplete == \/ profile_data.bio = ""
                      \/ profile_data.follower_count = 0
                      \/ profile_data.post_count = 0
    IN /\ pc = "processed" =>
              /\ incomplete => ~frame.returned
              /\ (~incomplete /\ frame.quality_score < LowQualityScore)
                     => frame.returned
       /\ pc = "submitted" => ~incomplete

\* A complete record scoring below 70 was passed on to the qualification.
C38_Witness ==
    /\ pc = "submitted"
    /\ frame.quality_score < LowQualityScore
    /\ profile_data.bio # ""
    /\ profile_data.follower_count > 0
    /\ profile_data.post_count > 0

\* A record without a biography was dropped.
C38_WitnessDropped ==
    /\ pc = "processed"
    /\ profile_data.bio = ""
    /\ profile_data.follower_count > 0
    /\ ~frame.returned

\* C39 (SpecFilter): a candidate is rejected at the forbidden-substring stage
\* only when a non-empty configured keyword occurs in its biography; with no
\* keyword configured, or with an empty item in the list, nobody is rejected
\* for the empty item.
C39_EmptyKeywordRejectsNobody ==
    (pc = "configured" /\ frame.reason = "Excluded keyword found") =>
        \E keyword \in ParseExcludeKeywords(frame.exclude_text) :
            /\ keyword # ""
            /\ Contains(keyword, Lower(profile_data.bio))

\* C40 (SpecFollowers): a call with limit >= 1 whose follower dialog opened
\* begins at least one collection pass, and whatever the limit the call
\* returns at most limit identifiers.
C40_AtLeastOnePass ==
    pc = "gf_done" =>
        /\ (frame.opened /\ frame.limit >= 1) => frame.passes >= 1
        /\ Cardinality(frame.returned) <= frame.limit

====
